---- MODULE Spec2Model ----
(***************************************************************************)
(* A model of parts of the Kudu storage and replication core:              *)
(*   - the consensus peer driver (kudu/consensus/consensus_peers.cc),      *)
(*   - the thread pool and its tokens, as exercised by                     *)
(*     kudu/util/threadpool-test.cc,                                       *)
(*   - the directory manager's failed-directory bookkeeping and its        *)
(*     creation of directories and instance files                          *)
(*     (kudu/fs/dir_manager.cc),                                           *)
(*   - the maintenance operations of a tablet replica                      *)
(*     (kudu/tablet/tablet_replica_mm_ops.cc),                             *)
(*   - the dictionary-encoded binary block, its builder and its decoder    *)
(*     (kudu/cfile/binary_dict_block.cc),                                  *)
(*   - the schema builder (kudu/common/schema.cc),                         *)
(*   - the selection vector (kudu/common/rowblock.cc).                     *)
(* Each part has its own specifications (Spec, RespSpec, FailSpec and      *)
(* LiveSpec; PoolSpec; DirSpec, SpaceSpec, UpdateSpec and CrSpec; MmSpec;  *)
(* DictSpec and DecSpec; SbSpec; SvSpec); the variables of the other       *)
(* parts are held at their initial values.                                 *)
(***************************************************************************)
EXTENDS Integers, Sequences, FiniteSets, TLC

VARIABLES
  \* ---- consensus peer (class Peer) ----
  request_pending_,         \* Peer::request_pending_
  closed_,                  \* Peer::closed_
  failed_attempts_,         \* Peer::failed_attempts_
  has_sent_first_request_,  \* Peer::has_sent_first_request_
  proxy_,                   \* Peer::proxy_ is set
  enable_tablet_copy,       \* FLAGS_enable_tablet_copy
  raft_tasks,               \* tasks submitted on raft_pool_token_, not yet run
  thr,                      \* threads between two critical sections of a handler
  rpcs,                     \* RPCs issued whose callback has not run yet
  untracked,                \* number of queue_->UntrackPeer calls
  check_failed,             \* a CHECK() of the peer has failed (process abort)
  peer_last,                \* the last peer step and its outcome
  request_,                 \* Peer::request_: its immutable fields, and how
                            \* many times they were written
  heartbeater_,             \* Peer::heartbeater_: "started" or "stopped"
  controller_,              \* Peer::controller_.status() of the completed RPC
  response_,                \* Peer::response_: its status().error().code() and
                            \* its error().code(), "none" when not set
  reported,                 \* the PeerStatus values passed to UpdatePeerStatus
  \* ---- maintenance operations of a tablet replica ----
  flush_threshold_mb,       \* FLAGS_flush_threshold_mb
  flush_threshold_secs,     \* FLAGS_flush_threshold_secs
  flush_upper_bound_ms,     \* FLAGS_flush_upper_bound_ms
  mrs_half_mb,              \* Tablet::MemRowSetSize(), in half MiB
  time_since_flush_,        \* FlushMRSOp::time_since_flush_.elapsed(), in ms
  rowsets_flush_sem_,       \* Tablet::rowsets_flush_sem_, its value (1: free)
  sem_,                     \* LogGCOp::sem_, its value (1: free)
  performing,               \* per op, the Prepare calls that returned true and
                            \* whose Perform has not returned
  stopped,                  \* Tablet::HasBeenStopped()
  mm_aborted,               \* a CHECK() of a maintenance op has failed
  mm_last,                  \* the last maintenance step, its outcome, and the
                            \* stats UpdateStats filled in
  \* ---- dictionary-encoded binary block (BinaryDictBlockBuilder) ----
  mode_,                    \* BinaryDictBlockBuilder::mode_
  dict_block_,              \* dict_block_: the strings of the file-level
                            \* dictionary block, in insertion order
  dictionary_,              \* dictionary_: the pairs <<string, codeword>>
  data_builder_,            \* data_builder_: its class and the values added
                            \* to the current data block
  finished_,                \* BinaryDictBlockBuilder::finished_
  file_blocks,              \* the finished data blocks, in file order
  accepted,                 \* the values Add has accepted, in order
  bd_last,                  \* the last builder call and what it returned
  \* ---- dictionary block decoder (BinaryDictBlockDecoder) ----
  dict_decoder_,            \* dict_decoder_: the strings of the dictionary block
  data_decoder_,            \* data_decoder_: the codewords of the data block
                            \* and the decoder's position cur_idx_
  sel,                      \* the SelectionVectorView after CopyNextAndEval
  dst,                      \* the output cells after CopyNextAndEval
  dec_last,                 \* the last decoder call, its arguments and result
  \* ---- failure logging of the consensus peer ----
  run_log,                  \* per increment of failed_attempts_ since it was
                            \* last 0: whether the warning was logged
  \* ---- the directories and instance files on disk ----
  disk_dirs,                \* the roots whose data directory exists
  disk_files,               \* the roots whose instance file exists
  created_fs_dir_paths_,    \* DirManager::created_fs_dir_paths_
  cr_last,                  \* the last CreateNewDirectoriesAndUpdateInstances:
                            \* what it found, created and deleted
  \* ---- schema builder (SchemaBuilder) ----
  cols_,                    \* SchemaBuilder::cols_; 'key' records whether the
                            \* column was added as a key column
  col_ids_,                 \* SchemaBuilder::col_ids_
  col_names_,               \* SchemaBuilder::col_names_
  num_key_columns_,         \* SchemaBuilder::num_key_columns_
  next_id_,                 \* SchemaBuilder::next_id_
  used_ids,                 \* the ids the builder has held so far
  sb_last,                  \* the last builder call and what it returned
  \* ---- selection vector (SelectionVector) ----
  bitmap_,                  \* SelectionVector::bitmap_, the bits of its
                            \* n_bytes_ bytes, row 0 first
  n_rows_,                  \* SelectionVector::n_rows_
  sv_last,                  \* the last call, its argument and the bitmap
                            \* before it
  \* ---- thread pool (ThreadPool, ThreadPoolToken) ----
  pool_status_ok,           \* ThreadPool::pool_status_.ok()
  queue_,                   \* ThreadPool::queue_, the tokens with a task to dispatch
  tok_mode,                 \* ThreadPoolToken::mode_, per token
  tok_state,                \* ThreadPoolToken::state_, per token
  entries_,                 \* ThreadPoolToken::entries_, per token
  running,                  \* the tasks being executed, as <<token, task>>
  submitted,                \* per token, the number of Submit calls that returned OK
  started,                  \* per token, the tasks in the order they started
  finished,                 \* per token, the tasks that have completed
  tok_hist,                 \* per token, "none", or the first Close() ("closed_idle",
                            \* "closed_running") or a Shutdown() ("shutdown") called on it
  blocked,                  \* the tokens with a caller waiting inside Shutdown() (0: the pool)
  pool_last,                \* the last pool step and its result
  \* ---- directory manager (DirManager, Dir) ----
  dm_state,                 \* "new", "open" (Open returned OK) or "open_failed"
  metrics_,                 \* DirManager::metrics_ is set
  failed_dirs_,             \* DirManager::failed_dirs_, a set of uuid indexes
  dirs_failed,              \* the dirs_failed metric
  opts_,                    \* DirManager::opts_: the open mode and lock_dirs()
  is_full_,                 \* Dir::is_full_, per directory
  dirs_full,                \* the dirs_full metric
  available_bytes_,         \* Dir::available_bytes_, per directory
  last_space_check_,        \* Dir::last_space_check_, per directory
  now,                      \* MonoTime::Now(), in ticks
  instances_,               \* per directory, the health of its instance:
                            \* "none" (not loaded), "healthy" or "failed"
  lock_attempted,           \* the directories on whose instance Lock() was called
  tmp_deleted,              \* the directories whose temporary files Open deleted
  uuid_by_idx_,             \* DirManager::uuid_by_idx_, as a set of <<idx, uuid>>
  idx_by_uuid_,             \* DirManager::idx_by_uuid_, as a set of <<uuid, idx>>
  dir_last,                 \* the last DirManager call and its result
  \* ---- DirManager::UpdateHealthyInstances ----
  update_instances,         \* opts_.update_instances
  instances_to_update,      \* per directory: "absent" (not passed in), or the
                            \* health of its instance, "healthy" or "failed"
  instance_file,            \* per directory, the content of its instance file:
                            \* "old", "new" or "torn"
  copy_file,                \* per directory, the copy of its instance file
                            \* (kTmpInfix): "none", "copy" or "torn"
  upd_last                  \* the result of UpdateHealthyInstances

peerVars == <<request_pending_, closed_, failed_attempts_, has_sent_first_request_,
              proxy_, enable_tablet_copy, raft_tasks, thr, rpcs, untracked,
              check_failed, peer_last, request_, heartbeater_>>

\* The completed UpdateConsensus RPC as Peer::ProcessResponse reads it.
respVars == <<controller_, response_, reported>>

----------------------------------------------------------------------------
\* Bounds of the peer model.
MaxTasks == 1      \* capacity of the raft pool token's queue
MaxFailed == 2     \* failed_attempts_ is explored up to this value
MaxThreads == 2    \* threads concurrently inside SignalRequest, inside Close, or
                   \* running tasks of the raft pool token

\* The number of retries between failed requests whose failure is logged.
kNumRetriesBetweenLoggingFailedRequest == 5

TaskKinds == {"sendT", "sendF", "doproc"}

\* The responses an UpdateConsensus RPC can complete with, in the order
\* ProcessResponse classifies them.
UpdateResponses == {"CTRL_REMOTE_ERROR", "CTRL_RPC_ERROR", "CANNOT_PREPARE",
                    "WRONG_SERVER_UUID", "TABLET_FAILED", "TABLET_NOT_FOUND",
                    "OTHER_TS_ERROR", "SUCCESS"}

\* What a StartTabletCopy RPC can complete with: controller_.status() and
\* tc_response_.error().code() ("none": no error set).  tc_response_ is
\* not cleared by the peer, so every combination is allowed.
CopyResponses ==
  [controller : {"OK", "ERROR"},
   error : {"none", "ALREADY_INPROGRESS", "THROTTLED", "OTHER"}]

\* What is recorded of a step: the operation and its outcome; of a
\* SendNextRequest also the caller ("sendT": a SignalRequest(true) task,
\* "sendF": a SignalRequest(false) task, "resend": DoProcessResponse),
\* whether the request it sends has ops, and whether it called
\* heartbeater_->Snooze().
Sent(out, caller, ops) ==
  [op |-> "SendNextRequest", out |-> out, caller |-> caller, ops |-> ops,
   snooze |-> FALSE]

Last(op, out) ==
  [op |-> op, out |-> out, caller |-> "none", ops |-> FALSE, snooze |-> FALSE]

TotalTasks == raft_tasks["sendT"] + raft_tasks["sendF"] + raft_tasks["doproc"]

SendTask(e) == IF e THEN "sendT" ELSE "sendF"

\* The pool threads that are inside a task of this peer.
BusyPoolThreads == thr.resend + thr.issueU + thr.issueC

\* ThreadPoolToken::Submit on raft_pool_token_: the task is queued when the
\* token accepts it and has capacity left.
RaftSubmitOk(accept) == accept /\ TotalTasks < MaxTasks

\* The Peer object exists and no CHECK() has aborted the process.  ~Peer
\* is the only place that stops heartbeater_.
Alive == ~check_failed /\ heartbeater_ = "started"

PeerInit ==
  /\ request_pending_ = FALSE
  /\ closed_ = FALSE
  /\ failed_attempts_ = 0
  /\ has_sent_first_request_ = FALSE
  /\ proxy_ \in BOOLEAN            \* the constructor's CreateProxyIfNeeded() may fail
  /\ enable_tablet_copy \in BOOLEAN
  /\ raft_tasks = [k \in TaskKinds |-> 0]
  /\ thr = [sigT |-> 0, sigF |-> 0, issueU |-> 0, issueC |-> 0, resend |-> 0, closing |-> 0]
  /\ rpcs = [update |-> 0, copy |-> 0]
  /\ untracked = 0
  /\ check_failed = FALSE
  /\ peer_last = Last("Init", "ok")
  /\ request_ = [tablet_id |-> "", caller_uuid |-> "", dest_uuid |-> "", sets |-> 0]
  /\ heartbeater_ = "started"     \* Peer::Init: heartbeater_->Start()

----------------------------------------------------------------------------
\* Peer::SignalRequest, first part: the unlocked reads of closed_ and
\* request_pending_.  A caller that passes both goes on to Submit.
\* 'caller' is "timer" for the heartbeater_ callback and "none" otherwise.
SignalRequestBy(even_if_queue_empty, caller) ==
  /\ Alive
  /\ IF closed_
       THEN /\ peer_last' = [Last("SignalRequest", "IllegalState") EXCEPT !.caller = caller]
            /\ UNCHANGED thr
       ELSE IF request_pending_
         THEN /\ peer_last' = [Last("SignalRequest", "pending") EXCEPT !.caller = caller]
              /\ UNCHANGED thr
         ELSE /\ thr.sigT + thr.sigF < MaxThreads
              /\ thr' = IF even_if_queue_empty
                          THEN [thr EXCEPT !.sigT = @ + 1]
                          ELSE [thr EXCEPT !.sigF = @ + 1]
              /\ peer_last' = [Last("SignalRequest", "checked") EXCEPT !.caller = caller]
  /\ UNCHANGED <<request_pending_, closed_, failed_attempts_, has_sent_first_request_,
                 proxy_, enable_tablet_copy, raft_tasks, rpcs, untracked, check_failed>>
  /\ UNCHANGED <<request_, heartbeater_>>

\* Peer::SignalRequest, second part: raft_pool_token_->Submit(SendNextRequest).
SignalRequestSubmit(even_if_queue_empty, accept) ==
  /\ Alive
  /\ IF even_if_queue_empty THEN thr.sigT > 0 ELSE thr.sigF > 0
  /\ thr' = IF even_if_queue_empty
              THEN [thr EXCEPT !.sigT = @ - 1]
              ELSE [thr EXCEPT !.sigF = @ - 1]
  /\ IF RaftSubmitOk(accept)
       THEN /\ raft_tasks' = [raft_tasks EXCEPT ![SendTask(even_if_queue_empty)] = @ + 1]
            /\ peer_last' = Last("Submit", "ok")
       ELSE /\ UNCHANGED raft_tasks
            /\ peer_last' = Last("Submit", "ServiceUnavailable")
  /\ UNCHANGED <<request_pending_, closed_, failed_attempts_, has_sent_first_request_,
                 proxy_, enable_tablet_copy, rpcs, untracked, check_failed>>
  /\ UNCHANGED <<request_, heartbeater_>>

\* A call of SignalRequest from outside the peer.
SignalRequestCheck(even_if_queue_empty) == SignalRequestBy(even_if_queue_empty, "none")

\* The heartbeater_ callback set up by Peer::Init, run by the started timer
\* every raft_heartbeat_interval_ms: SignalRequest(true).
HeartbeatTick == heartbeater_ = "started" /\ SignalRequestBy(TRUE, "timer")

\* A signal from the consensus queue's owner: SignalRequest(false) or (true).
SignalRequest == \E e \in BOOLEAN : SignalRequestCheck(e)

----------------------------------------------------------------------------
\* What the consensus queue and the proxy factory answer during one
\* SendNextRequest: the status of RequestForPeer, its needs_tablet_copy,
\* whether the request has ops or advances the committed index, whether
\* NewProxy succeeds, and the status of GetTabletCopyRequestForPeer.
\* An answer that SendNextRequest does not get to read is left FALSE.
SendInputs ==
  {in \in [rfp_ok : BOOLEAN, needs_tablet_copy : BOOLEAN, req_has_ops : BOOLEAN,
           new_proxy_ok : BOOLEAN, tc_ok : BOOLEAN] :
     /\ ~in.rfp_ok => ~in.needs_tablet_copy /\ ~in.req_has_ops /\ ~in.new_proxy_ok
     /\ in.needs_tablet_copy => ~in.req_has_ops
     /\ ~in.needs_tablet_copy => ~in.tc_ok}

\* Peer::CreateProxyIfNeeded
CreateProxyIfNeeded(in) == proxy_ \/ in.new_proxy_ok

\* SendOutcome without the test of request_pending_.
SendOutcomeNoPendingTest(even_if_queue_empty, in) ==
  LET e == IF ~has_sent_first_request_ THEN TRUE ELSE even_if_queue_empty IN
  IF closed_ THEN "closed"
  ELSE IF failed_attempts_ > 0 /\ ~e THEN "skip_failed"
  ELSE IF ~in.rfp_ok THEN "queue_error"
  ELSE IF ~CreateProxyIfNeeded(in) THEN "no_proxy"
  ELSE IF in.needs_tablet_copy
    THEN (IF ~enable_tablet_copy THEN "copy_disabled"
          ELSE IF ~in.tc_ok THEN "copy_prepare_failed"
          ELSE "copy")
  ELSE IF ~in.req_has_ops /\ ~e THEN "empty"
  ELSE "update"

\* SendOutcome without the test of closed_.
SendOutcomeNoClosedTest(even_if_queue_empty, in) ==
  LET e == IF ~has_sent_first_request_ THEN TRUE ELSE even_if_queue_empty IN
  IF request_pending_ THEN "pending"
  ELSE IF failed_attempts_ > 0 /\ ~e THEN "skip_failed"
  ELSE IF ~in.rfp_ok THEN "queue_error"
  ELSE IF ~CreateProxyIfNeeded(in) THEN "no_proxy"
  ELSE IF in.needs_tablet_copy
    THEN (IF ~enable_tablet_copy THEN "copy_disabled"
          ELSE IF ~in.tc_ok THEN "copy_prepare_failed"
          ELSE "copy")
  ELSE IF ~in.req_has_ops /\ ~e THEN "empty"
  ELSE "update"

\* SendOutcome without the test of failed_attempts_.
SendOutcomeNoFailedTest(even_if_queue_empty, in) ==
  LET e == IF ~has_sent_first_request_ THEN TRUE ELSE even_if_queue_empty IN
  IF closed_ THEN "closed"
  ELSE IF request_pending_ THEN "pending"
  ELSE IF ~in.rfp_ok THEN "queue_error"
  ELSE IF ~CreateProxyIfNeeded(in) THEN "no_proxy"
  ELSE IF in.needs_tablet_copy
    THEN (IF ~enable_tablet_copy THEN "copy_disabled"
          ELSE IF ~in.tc_ok THEN "copy_prepare_failed"
          ELSE "copy")
  ELSE IF ~in.req_has_ops /\ ~e THEN "empty"
  ELSE "update"

\* SendOutcome that skips after a failure whatever the signal.
SendOutcomeSkipsHeartbeats(even_if_queue_empty, in) ==
  LET e == IF ~has_sent_first_request_ THEN TRUE ELSE even_if_queue_empty IN
  IF closed_ THEN "closed"
  ELSE IF request_pending_ THEN "pending"
  ELSE IF failed_attempts_ > 0 /\ has_sent_first_request_ THEN "skip_failed"
  ELSE IF ~in.rfp_ok THEN "queue_error"
  ELSE IF ~CreateProxyIfNeeded(in) THEN "no_proxy"
  ELSE IF in.needs_tablet_copy
    THEN (IF ~enable_tablet_copy THEN "copy_disabled"
          ELSE IF ~in.tc_ok THEN "copy_prepare_failed"
          ELSE "copy")
  ELSE IF ~in.req_has_ops /\ ~e THEN "empty"
  ELSE "update"

\* The path Peer::SendNextRequest takes under peer_lock_.
SendOutcome(even_if_queue_empty, in) ==
  LET e == IF ~has_sent_first_request_ THEN TRUE ELSE even_if_queue_empty IN
  IF closed_ THEN "closed"
  ELSE IF request_pending_ THEN "pending"
  ELSE IF failed_attempts_ > 0 /\ ~e THEN "skip_failed"
  ELSE IF ~in.rfp_ok THEN "queue_error"
  ELSE IF ~CreateProxyIfNeeded(in) THEN "no_proxy"
  ELSE IF in.needs_tablet_copy
    THEN (IF ~enable_tablet_copy THEN "copy_disabled"
          ELSE IF ~in.tc_ok THEN "copy_prepare_failed"
          ELSE "copy")
  ELSE IF ~in.req_has_ops /\ ~e THEN "empty"
  ELSE "update"

\* SetsImmutableFields that writes the fields on every send.
SetsImmutableFieldsAlways(out) == out = "update"

\* Peer::SendNextRequest: whether the immutable fields of request_ are
\* written.
SetsImmutableFields(out) == out = "update" /\ ~has_sent_first_request_

\* A SendNextRequest that snoozes the heartbeat on every UpdateConsensus.
SnoozesHeartbeatOnEverySend(out, in) == out = "update"

\* Peer::SendNextRequest: whether heartbeater_->Snooze() is called.
SnoozesHeartbeat(out, in) == out = "update" /\ in.req_has_ops

\* A PrepareTabletCopyRequest that counts every failure to prepare the request.
CountsFailedAttemptOnAnyCopyError(out) == out \in {"copy_disabled", "copy_prepare_failed"}

\* Peer::PrepareTabletCopyRequest: whether failed_attempts_ is incremented.
CountsFailedAttempt(out) == out = "copy_disabled"

\* Peer::SendNextRequest, the part under peer_lock_; 't0' is thr without the
\* caller.  The RPC itself is issued after the lock is released (IssueRpc).
SendNextRequest(even_if_queue_empty, in, t0, caller) ==
  LET out == SendOutcome(even_if_queue_empty, in) IN
  /\ CountsFailedAttempt(out) => failed_attempts_ < MaxFailed
  /\ peer_last' = [Sent(out, caller, out = "update" /\ in.req_has_ops)
                     EXCEPT !.snooze = SnoozesHeartbeat(out, in)]
  /\ request_' = IF SetsImmutableFields(out)
                   THEN [tablet_id |-> "tablet_id_", caller_uuid |-> "leader_uuid_",
                         dest_uuid |-> "permanent_uuid",
                         sets |-> IF request_.sets < 2 THEN request_.sets + 1 ELSE 2]
                   ELSE request_
  /\ proxy_' = IF out \in {"closed", "pending", "skip_failed", "queue_error"}
                 THEN proxy_ ELSE CreateProxyIfNeeded(in)
  /\ failed_attempts_' = IF CountsFailedAttempt(out) THEN failed_attempts_ + 1
                         ELSE failed_attempts_
  /\ has_sent_first_request_' = IF out = "update" THEN TRUE ELSE has_sent_first_request_
  /\ request_pending_' = IF out \in {"copy", "update"} THEN TRUE ELSE request_pending_
  /\ thr' = IF out = "update" THEN [t0 EXCEPT !.issueU = @ + 1]
            ELSE IF out = "copy" THEN [t0 EXCEPT !.issueC = @ + 1]
            ELSE t0
  /\ UNCHANGED <<closed_, enable_tablet_copy, rpcs, untracked, check_failed,
                 heartbeater_>>

\* A pool thread runs a task submitted by SignalRequest.
RunSendNextRequest(even_if_queue_empty) ==
  /\ Alive
  /\ BusyPoolThreads < MaxThreads
  /\ raft_tasks[SendTask(even_if_queue_empty)] > 0
  /\ raft_tasks' = [raft_tasks EXCEPT ![SendTask(even_if_queue_empty)] = @ - 1]
  /\ \E in \in SendInputs :
       SendNextRequest(even_if_queue_empty, in, thr, SendTask(even_if_queue_empty))

\* proxy_->UpdateAsync / proxy_->StartTabletCopyAsync, called after l.unlock().
IssueRpc ==
  /\ Alive
  /\ \/ /\ thr.issueU > 0
        /\ thr' = [thr EXCEPT !.issueU = @ - 1]
        /\ rpcs' = [rpcs EXCEPT !.update = @ + 1]
        /\ peer_last' = Last("IssueRpc", "update")
     \/ /\ thr.issueC > 0
        /\ thr' = [thr EXCEPT !.issueC = @ - 1]
        /\ rpcs' = [rpcs EXCEPT !.copy = @ + 1]
        /\ peer_last' = Last("IssueRpc", "copy")
  /\ UNCHANGED <<request_pending_, closed_, failed_attempts_, has_sent_first_request_,
                 proxy_, enable_tablet_copy, raft_tasks, untracked, check_failed>>
  /\ UNCHANGED <<request_, heartbeater_>>

\* The PeerStatus Peer::ProcessResponse reports for a failed response.
PeerStatusOf(resp) ==
  CASE resp = "CTRL_REMOTE_ERROR" -> "REMOTE_ERROR"
    [] resp = "CTRL_RPC_ERROR" -> "RPC_LAYER_ERROR"
    [] resp = "CANNOT_PREPARE" -> "CANNOT_PREPARE"
    [] resp \in {"WRONG_SERVER_UUID", "TABLET_FAILED"} -> "TABLET_FAILED"
    [] resp = "TABLET_NOT_FOUND" -> "TABLET_NOT_FOUND"
    [] OTHER -> "REMOTE_ERROR"

\* ProcessResponse that schedules a SendNextRequest(true) after a failure.
ProcessResponseRetrying(resp, accept) ==
  /\ Alive
  /\ rpcs.update > 0
  /\ rpcs' = [rpcs EXCEPT !.update = @ - 1]
  /\ IF closed_
       THEN /\ peer_last' = Last("ProcessResponse", "closed")
            /\ UNCHANGED <<request_pending_, failed_attempts_, raft_tasks, check_failed>>
       ELSE IF ~request_pending_
         THEN /\ check_failed' = TRUE
              /\ peer_last' = Last("ProcessResponse", "CHECK")
              /\ UNCHANGED <<request_pending_, failed_attempts_, raft_tasks>>
         ELSE IF resp # "SUCCESS"
           THEN /\ failed_attempts_ < MaxFailed
                /\ failed_attempts_' = failed_attempts_ + 1
                /\ request_pending_' = FALSE
                /\ peer_last' = Last("ProcessResponse", PeerStatusOf(resp))
                /\ raft_tasks' = IF TotalTasks < MaxTasks
                                   THEN [raft_tasks EXCEPT !["sendT"] = @ + 1]
                                   ELSE raft_tasks
                /\ UNCHANGED check_failed
           ELSE IF RaftSubmitOk(accept)
             THEN /\ raft_tasks' = [raft_tasks EXCEPT !["doproc"] = @ + 1]
                  /\ peer_last' = Last("ProcessResponse", "submitted")
                  /\ UNCHANGED <<request_pending_, failed_attempts_, check_failed>>
             ELSE /\ request_pending_' = FALSE
                  /\ peer_last' = Last("ProcessResponse", "submit_failed")
                  /\ UNCHANGED <<failed_attempts_, raft_tasks, check_failed>>
  /\ UNCHANGED <<closed_, has_sent_first_request_, proxy_, enable_tablet_copy, thr,
                 untracked>>
  /\ UNCHANGED <<request_, heartbeater_>>

\* Peer::ProcessResponse, the callback of UpdateAsync (reactor thread).
ProcessResponse(resp, accept) ==
  /\ Alive
  /\ rpcs.update > 0
  /\ rpcs' = [rpcs EXCEPT !.update = @ - 1]
  /\ IF closed_
       THEN /\ peer_last' = Last("ProcessResponse", "closed")
            /\ UNCHANGED <<request_pending_, failed_attempts_, raft_tasks, check_failed>>
       ELSE IF ~request_pending_
         THEN /\ check_failed' = TRUE          \* CHECK(request_pending_)
              /\ peer_last' = Last("ProcessResponse", "CHECK")
              /\ UNCHANGED <<request_pending_, failed_attempts_, raft_tasks>>
         ELSE IF resp # "SUCCESS"
           THEN \* UpdatePeerStatus, then ProcessResponseErrorUnlocked
                /\ failed_attempts_ < MaxFailed
                /\ failed_attempts_' = failed_attempts_ + 1
                /\ request_pending_' = FALSE
                /\ peer_last' = Last("ProcessResponse", PeerStatusOf(resp))
                /\ UNCHANGED <<raft_tasks, check_failed>>
           ELSE IF RaftSubmitOk(accept)
             THEN /\ raft_tasks' = [raft_tasks EXCEPT !["doproc"] = @ + 1]
                  /\ peer_last' = Last("ProcessResponse", "submitted")
                  /\ UNCHANGED <<request_pending_, failed_attempts_, check_failed>>
             ELSE /\ request_pending_' = FALSE
                  /\ peer_last' = Last("ProcessResponse", "submit_failed")
                  /\ UNCHANGED <<failed_attempts_, raft_tasks, check_failed>>
  /\ UNCHANGED <<closed_, has_sent_first_request_, proxy_, enable_tablet_copy, thr,
                 untracked>>
  /\ UNCHANGED <<request_, heartbeater_>>

\* DoProcessResponse that leaves failed_attempts_ alone.
DoProcessResponseKeepsCount(send_more_immediately) ==
  /\ Alive
  /\ BusyPoolThreads < MaxThreads
  /\ raft_tasks["doproc"] > 0
  /\ raft_tasks' = [raft_tasks EXCEPT !["doproc"] = @ - 1]
  /\ IF ~request_pending_
       THEN /\ check_failed' = TRUE
            /\ peer_last' = Last("DoProcessResponse", "CHECK")
            /\ UNCHANGED <<request_pending_, thr>>
       ELSE /\ request_pending_' = FALSE
            /\ thr' = IF send_more_immediately
                        THEN [thr EXCEPT !.resend = @ + 1] ELSE thr
            /\ peer_last' = Last("DoProcessResponse",
                                 IF send_more_immediately THEN "send_more" ELSE "done")
            /\ UNCHANGED check_failed
  /\ UNCHANGED <<closed_, failed_attempts_, has_sent_first_request_, proxy_,
                 enable_tablet_copy, rpcs, untracked, request_, heartbeater_>>

\* Peer::DoProcessResponse up to the release of peer_lock_; with
\* send_more_immediately the thread goes on to SendNextRequest(true).
DoProcessResponse(send_more_immediately) ==
  /\ Alive
  /\ BusyPoolThreads < MaxThreads
  /\ raft_tasks["doproc"] > 0
  /\ raft_tasks' = [raft_tasks EXCEPT !["doproc"] = @ - 1]
  /\ IF ~request_pending_
       THEN /\ check_failed' = TRUE            \* CHECK(request_pending_)
            /\ peer_last' = Last("DoProcessResponse", "CHECK")
            /\ UNCHANGED <<request_pending_, failed_attempts_, thr>>
       ELSE /\ failed_attempts_' = 0
            /\ request_pending_' = FALSE
            /\ thr' = IF send_more_immediately
                        THEN [thr EXCEPT !.resend = @ + 1] ELSE thr
            /\ peer_last' = Last("DoProcessResponse",
                                 IF send_more_immediately THEN "send_more" ELSE "done")
            /\ UNCHANGED check_failed
  /\ UNCHANGED <<closed_, has_sent_first_request_, proxy_, enable_tablet_copy, rpcs,
                 untracked>>
  /\ UNCHANGED <<request_, heartbeater_>>

\* The SendNextRequest(true) at the end of Peer::DoProcessResponse.
SendMoreImmediately ==
  /\ Alive
  /\ thr.resend > 0
  /\ UNCHANGED raft_tasks
  /\ \E in \in SendInputs :
       SendNextRequest(TRUE, in, [thr EXCEPT !.resend = @ - 1], "resend")

\* TabletCopyOutcome that logs a THROTTLED response too.
TabletCopyOutcomeLogsThrottled(resp) ==
  IF resp.controller = "OK" /\ resp.error \in {"none", "ALREADY_INPROGRESS"}
    THEN "OK"
    ELSE "logged"

\* Peer::ProcessTabletCopyResponse: "OK" when PeerStatus::OK is reported to
\* the queue, "logged" when the warning is logged, "silent" otherwise.
TabletCopyOutcome(resp) ==
  IF resp.controller = "OK" /\ (resp.error = "none" \/ resp.error = "ALREADY_INPROGRESS")
    THEN "OK"
  ELSE IF resp.error = "none" \/ resp.error # "THROTTLED"
    THEN "logged"
  ELSE "silent"

\* ProcessTabletCopyResponse that leaves request_pending_ set.
ProcessTabletCopyResponseKeepsPending(resp) ==
  /\ Alive
  /\ rpcs.copy > 0
  /\ rpcs' = [rpcs EXCEPT !.copy = @ - 1]
  /\ IF closed_
       THEN /\ peer_last' = Last("ProcessTabletCopyResponse", "closed")
            /\ UNCHANGED <<request_pending_, check_failed>>
       ELSE IF ~request_pending_
         THEN /\ check_failed' = TRUE
              /\ peer_last' = Last("ProcessTabletCopyResponse", "CHECK")
              /\ UNCHANGED request_pending_
         ELSE /\ peer_last' = Last("ProcessTabletCopyResponse", TabletCopyOutcome(resp))
              /\ UNCHANGED <<request_pending_, check_failed>>
  /\ UNCHANGED <<closed_, failed_attempts_, has_sent_first_request_, proxy_,
                 enable_tablet_copy, raft_tasks, thr, untracked>>
  /\ UNCHANGED <<request_, heartbeater_>>

\* Peer::ProcessTabletCopyResponse, the callback of StartTabletCopyAsync.
ProcessTabletCopyResponse(resp) ==
  /\ Alive
  /\ rpcs.copy > 0
  /\ rpcs' = [rpcs EXCEPT !.copy = @ - 1]
  /\ IF closed_
       THEN /\ peer_last' = Last("ProcessTabletCopyResponse", "closed")
            /\ UNCHANGED <<request_pending_, check_failed>>
       ELSE IF ~request_pending_
         THEN /\ check_failed' = TRUE
              /\ peer_last' = Last("ProcessTabletCopyResponse", "CHECK")
              /\ UNCHANGED request_pending_
         ELSE /\ request_pending_' = FALSE
              /\ peer_last' = Last("ProcessTabletCopyResponse", TabletCopyOutcome(resp))
              /\ UNCHANGED check_failed
  /\ UNCHANGED <<closed_, failed_attempts_, has_sent_first_request_, proxy_,
                 enable_tablet_copy, raft_tasks, thr, untracked>>
  /\ UNCHANGED <<request_, heartbeater_>>

\* Peer::Close, the unlocked test of closed_.
CloseCheck ==
  /\ Alive
  /\ IF closed_
       THEN /\ peer_last' = Last("Close", "already_closed")
            /\ UNCHANGED thr
       ELSE /\ thr.closing < MaxThreads
            /\ thr' = [thr EXCEPT !.closing = @ + 1]
            /\ peer_last' = Last("Close", "closing")
  /\ UNCHANGED <<request_pending_, closed_, failed_attempts_, has_sent_first_request_,
                 proxy_, enable_tablet_copy, raft_tasks, rpcs, untracked, check_failed>>
  /\ UNCHANGED <<request_, heartbeater_>>

\* Peer::Close, the rest: closed_ = true under peer_lock_, then UntrackPeer.
CloseFinish ==
  /\ Alive
  /\ thr.closing > 0
  /\ thr' = [thr EXCEPT !.closing = @ - 1]
  /\ closed_' = TRUE
  /\ untracked' = untracked + 1
  /\ peer_last' = Last("Close", "closed")
  /\ UNCHANGED <<request_pending_, failed_attempts_, has_sent_first_request_,
                 proxy_, enable_tablet_copy, raft_tasks, rpcs, check_failed>>
  /\ UNCHANGED <<request_, heartbeater_>>

\* Peer::~Peer, run when the last shared_ptr to the peer goes away (no RPC
\* callback and no thread inside a method holds one): Close(), then
\* heartbeater_->Stop().  Tasks still queued hold a weak_ptr and do nothing.
DestroyPeer ==
  /\ Alive
  /\ rpcs = [update |-> 0, copy |-> 0]
  /\ \A k \in DOMAIN thr : thr[k] = 0
  /\ closed_' = TRUE
  /\ untracked' = IF closed_ THEN untracked ELSE untracked + 1
  /\ heartbeater_' = "stopped"
  /\ peer_last' = Last("~Peer", IF closed_ THEN "already_closed" ELSE "closed")
  /\ UNCHANGED <<request_pending_, failed_attempts_, has_sent_first_request_,
                 proxy_, enable_tablet_copy, raft_tasks, thr, rpcs, check_failed,
                 request_>>

----------------------------------------------------------------------------
\* Peer::ProcessResponse on the fields of the completed RPC.

ControllerStatuses == {"OK", "REMOTE_ERROR", "RPC_ERROR"}
ConsensusErrors == {"none", "CANNOT_PREPARE", "OTHER"}
TabletServerErrors ==
  {"none", "WRONG_SERVER_UUID", "TABLET_FAILED", "TABLET_NOT_FOUND", "OTHER"}

PeerStatuses == {"REMOTE_ERROR", "RPC_LAYER_ERROR", "CANNOT_PREPARE", "TABLET_FAILED",
                 "TABLET_NOT_FOUND"}

\* ResponseKind that looks at the tablet server error first.
ResponseKindTserverFirst(c, r) ==
  IF r.error # "none"
    THEN IF r.error = "OTHER" THEN "OTHER_TS_ERROR" ELSE r.error
  ELSE IF c # "OK"
    THEN IF c = "REMOTE_ERROR" THEN "CTRL_REMOTE_ERROR" ELSE "CTRL_RPC_ERROR"
  ELSE IF r.status_error = "CANNOT_PREPARE" THEN "CANNOT_PREPARE"
  ELSE "SUCCESS"

\* The branch of Peer::ProcessResponse a completed RPC takes: the controller
\* status is tested first, then the consensus error CANNOT_PREPARE, then the
\* tablet server error; any other response goes on to DoProcessResponse.
ResponseKind(c, r) ==
  IF c # "OK"
    THEN IF c = "REMOTE_ERROR" THEN "CTRL_REMOTE_ERROR" ELSE "CTRL_RPC_ERROR"
  ELSE IF r.status_error = "CANNOT_PREPARE" THEN "CANNOT_PREPARE"
  ELSE IF r.error # "none"
    THEN IF r.error = "OTHER" THEN "OTHER_TS_ERROR" ELSE r.error
  ELSE "SUCCESS"

\* A peer whose UpdateConsensus RPC has completed and whose callback has
\* not run yet; Close() may have been called in between.
RespInit ==
  /\ request_pending_ = TRUE
  /\ closed_ \in BOOLEAN
  /\ failed_attempts_ \in 0..(MaxFailed - 1)
  /\ has_sent_first_request_ = TRUE
  /\ proxy_ = TRUE
  /\ enable_tablet_copy = TRUE
  /\ raft_tasks = [k \in TaskKinds |-> 0]
  /\ thr = [sigT |-> 0, sigF |-> 0, issueU |-> 0, issueC |-> 0, resend |-> 0, closing |-> 0]
  /\ rpcs = [update |-> 1, copy |-> 0]
  /\ untracked = IF closed_ THEN 1 ELSE 0
  /\ check_failed = FALSE
  /\ peer_last = Last("IssueRpc", "update")
  /\ request_ = [tablet_id |-> "tablet_id_", caller_uuid |-> "leader_uuid_",
                 dest_uuid |-> "permanent_uuid", sets |-> 1]
  /\ heartbeater_ = "started"
  /\ controller_ \in ControllerStatuses
  /\ response_ \in [status_error : ConsensusErrors, error : TabletServerErrors]
  /\ reported = <<>>

\* The callback of UpdateAsync on the completed RPC; every status it
\* passes to queue_->UpdatePeerStatus is appended to 'reported'.
RunProcessResponse(accept) ==
  /\ ProcessResponse(ResponseKind(controller_, response_), accept)
  /\ reported' = IF peer_last'.out \in PeerStatuses
                   THEN Append(reported, peer_last'.out) ELSE reported
  /\ UNCHANGED <<controller_, response_>>

RespAtRest ==
  /\ controller_ = "OK"
  /\ response_ = [status_error |-> "none", error |-> "none"]
  /\ reported = <<>>

----------------------------------------------------------------------------
\* The thread pool and its tokens.

poolVars == <<pool_status_ok, queue_, tok_mode, tok_state, entries_, running,
              submitted, started, finished, tok_hist, blocked, pool_last>>

\* Bounds of the pool model.
MaxSubmits == 2    \* accepted submissions per token
max_threads_ == 2  \* ThreadPoolBuilder::set_max_threads

\* The tokens of the pool.  ThreadPool::Submit goes through the pool's own
\* tokenless token, a CONCURRENT token that no caller closes or shuts down:
\* its behaviours are those of a CONCURRENT token with tok_hist = "none".
\* There are two of them, as t1 and t2 of TestTokenShutdown.
Tokens == {1, 2}

PLast(op, t, status) == [op |-> op, tok |-> t, status |-> status]

\* ThreadPoolToken::active_threads_
active_threads_(t) == Cardinality({r \in running : r[1] = t})

\* ThreadPoolToken::IsActive
IsActive(t) == tok_state[t] \in {"RUNNING", "GRACEFUL_QUIESCING"}

\* MaySubmitNewTasks that still admits tasks on a token that is draining.
MaySubmitNewTasksDraining(t) == tok_state[t] # "QUIESCED"

\* ThreadPoolToken::MaySubmitNewTasks
MaySubmitNewTasks(t) == tok_state[t] \in {"IDLE", "RUNNING"}

\* The sequence q without the occurrences of token t.
RECURSIVE Without(_, _)
Without(q, t) ==
  IF q = <<>> THEN <<>>
  ELSE IF Head(q) = t THEN Without(Tail(q), t)
  ELSE <<Head(q)>> \o Without(Tail(q), t)

PoolInit ==
  /\ pool_status_ok = TRUE
  /\ queue_ = <<>>
  /\ tok_mode \in [Tokens -> {"SERIAL", "CONCURRENT"}]
  /\ tok_state = [t \in Tokens |-> "IDLE"]
  /\ entries_ = [t \in Tokens |-> <<>>]
  /\ running = {}
  /\ submitted = [t \in Tokens |-> 0]
  /\ started = [t \in Tokens |-> <<>>]
  /\ finished = [t \in Tokens |-> {}]
  /\ tok_hist = [t \in Tokens |-> "none"]
  /\ blocked = {}
  /\ pool_last = PLast("Init", 0, "-")

\* A task that ThreadPool::DoSubmit has just accepted makes its token
\* schedulable whatever the token's mode and state.
EnqueueTokenAlways(t) == TRUE

\* ThreadPool::DoSubmit: the token is put on the pool's queue when it was
\* idle, or for every task of a CONCURRENT token; a SERIAL token that is
\* running is requeued by the worker that finishes its task.
EnqueueToken(t) == tok_state[t] = "IDLE" \/ tok_mode[t] = "CONCURRENT"

\* ThreadPoolToken::Submit / ThreadPool::Submit (token 0)
Submit(t) ==
  /\ submitted[t] < MaxSubmits
  /\ IF ~pool_status_ok \/ ~MaySubmitNewTasks(t)
       THEN /\ pool_last' = PLast("Submit", t, "ServiceUnavailable")
            /\ UNCHANGED <<queue_, tok_state, entries_, submitted>>
       ELSE /\ submitted' = [submitted EXCEPT ![t] = @ + 1]
            /\ entries_' = [entries_ EXCEPT ![t] = Append(@, submitted[t] + 1)]
            /\ queue_' = IF EnqueueToken(t) THEN Append(queue_, t) ELSE queue_
            /\ tok_state' = [tok_state EXCEPT ![t] = "RUNNING"]
            /\ pool_last' = PLast("Submit", t, "OK")
  /\ UNCHANGED <<pool_status_ok, tok_mode, running, started, finished, tok_hist, blocked>>

\* The task a worker takes from the token's entries_: the newest one.
NextTaskNewest(t) == entries_[t][Len(entries_[t])]

\* The task a worker takes from the token's entries_: the oldest one.
NextTask(t) == Head(entries_[t])

\* ThreadPool::DispatchThread, from taking the head of queue_ to the start of
\* the task.
Dispatch ==
  /\ pool_status_ok
  /\ queue_ # <<>>
  /\ Cardinality(running) < max_threads_
  /\ LET t == Head(queue_)
         id == NextTask(t) IN
     /\ queue_' = Tail(queue_)
     /\ entries_' = [entries_ EXCEPT ![t] =
                       SelectSeq(@, LAMBDA x : x # id)]
     /\ running' = running \cup {<<t, id>>}
     /\ started' = [started EXCEPT ![t] = Append(@, id)]
     /\ pool_last' = PLast("-", 0, "-")
  /\ UNCHANGED <<pool_status_ok, tok_mode, tok_state, submitted, finished, tok_hist,
                 blocked>>

\* The state of a token whose last running task has finished, if every
\* quiescing token were quiesced at once.
StateAfterLastTaskAbrupt(t) ==
  IF tok_state[t] = "GRACEFUL_QUIESCING" THEN "QUIESCED"
  ELSE IF entries_[t] = <<>> THEN "IDLE"
  ELSE tok_state[t]

\* ThreadPool::DispatchThread after the task: the state of a token whose last
\* running task has finished.
StateAfterLastTask(t) ==
  IF tok_state[t] = "GRACEFUL_QUIESCING"
    THEN (IF entries_[t] = <<>> THEN "QUIESCED" ELSE "GRACEFUL_QUIESCING")
  ELSE IF entries_[t] = <<>> THEN "IDLE"
  ELSE tok_state[t]

\* ThreadPool::DispatchThread, from the end of the task on.
Finish(t, id) ==
  /\ <<t, id>> \in running
  /\ running' = running \ {<<t, id>>}
  /\ finished' = [finished EXCEPT ![t] = @ \cup {id}]
  /\ IF active_threads_(t) = 1
       THEN /\ tok_state' = [tok_state EXCEPT ![t] = StateAfterLastTask(t)]
            /\ queue_' = IF entries_[t] # <<>> /\ tok_mode[t] = "SERIAL"
                           THEN Append(queue_, t) ELSE queue_
       ELSE UNCHANGED <<tok_state, queue_>>
  /\ pool_last' = PLast("-", 0, "-")
  /\ UNCHANGED <<pool_status_ok, tok_mode, entries_, submitted, started, tok_hist,
                 blocked>>

\* Close that moves the token to GRACEFUL_QUIESCING whatever its state.
CloseTransitionAlways(st) == IF st = "IDLE" THEN "QUIESCED" ELSE "GRACEFUL_QUIESCING"

\* ThreadPoolToken::Close: an idle token is quiesced at once, a running one
\* drains; a closed or shut down token is left alone.
CloseTransition(st) ==
  CASE st = "IDLE" -> "QUIESCED"
    [] st = "RUNNING" -> "GRACEFUL_QUIESCING"
    [] OTHER -> st

\* ThreadPoolToken::Close
Close(t) ==
  /\ t \in Tokens
  /\ tok_state' = [tok_state EXCEPT ![t] = CloseTransition(@)]
  /\ tok_hist' = [tok_hist EXCEPT ![t] =
                     IF @ # "none" THEN @
                     ELSE IF tok_state[t] = "IDLE" THEN "closed_idle"
                     ELSE "closed_running"]
  /\ pool_last' = PLast("Close", t, "returned")
  /\ UNCHANGED <<pool_status_ok, queue_, tok_mode, entries_, running, submitted,
                 started, finished, blocked>>

\* Shutdown that leaves the token's queued tasks in place.
EntriesAfterShutdownKept(t) == entries_[t]

\* ThreadPoolToken::Shutdown: the queued tasks are released without being run.
EntriesAfterShutdown(t) == <<>>

\* ThreadPoolToken::Shutdown: the token is quiesced at once unless one of its
\* tasks is running.
ShutdownTransition(t) ==
  IF active_threads_(t) = 0 THEN "QUIESCED"
  ELSE IF tok_state[t] \in {"RUNNING", "GRACEFUL_QUIESCING"} THEN "GRACEFUL_QUIESCING"
  ELSE tok_state[t]

\* ThreadPoolToken::Shutdown up to its wait.
Shutdown(t) ==
  /\ t \in Tokens
  /\ entries_' = [entries_ EXCEPT ![t] = EntriesAfterShutdown(t)]
  /\ queue_' = Without(queue_, t)
  /\ tok_state' = [tok_state EXCEPT ![t] = ShutdownTransition(t)]
  /\ tok_hist' = [tok_hist EXCEPT ![t] = "shutdown"]
  /\ IF ShutdownTransition(t) = "QUIESCED"
       THEN /\ pool_last' = PLast("Shutdown", t, "returned")
            /\ UNCHANGED blocked
       ELSE /\ pool_last' = PLast("Shutdown", t, "blocked")
            /\ blocked' = blocked \cup {t}
  /\ UNCHANGED <<pool_status_ok, tok_mode, running, submitted, started, finished>>

\* Shutdown returns once every task of the pool has finished.
ShutdownMayReturnPoolIdle(t) == running = {}

\* ThreadPoolToken::Shutdown returns once the token is QUIESCED.
ShutdownMayReturn(t) == tok_state[t] = "QUIESCED"

\* The end of the wait of ThreadPoolToken::Shutdown.
ShutdownReturn(t) ==
  /\ t \in blocked
  /\ ShutdownMayReturn(t)
  /\ blocked' = blocked \ {t}
  /\ pool_last' = PLast("Shutdown", t, "returned")
  /\ UNCHANGED <<pool_status_ok, queue_, tok_mode, tok_state, entries_, running,
                 submitted, started, finished, tok_hist>>

\* ThreadPoolToken::Wait: the call returns at a moment the token is not active.
Wait(t) ==
  /\ t \in Tokens
  /\ ~IsActive(t)
  /\ pool_last' = PLast("Wait", t, "returned")
  /\ UNCHANGED <<pool_status_ok, queue_, tok_mode, tok_state, entries_, running,
                 submitted, started, finished, tok_hist, blocked>>

\* ThreadPool::Shutdown up to its wait: every queue is emptied and every
\* token quiesced, at once when none of its tasks is running.
PoolShutdown ==
  /\ pool_status_ok
  /\ pool_status_ok' = FALSE
  /\ queue_' = <<>>
  /\ entries_' = [t \in Tokens |-> <<>>]
  /\ tok_state' = [t \in Tokens |->
                     IF active_threads_(t) = 0 THEN "QUIESCED" ELSE "GRACEFUL_QUIESCING"]
  /\ blocked' = blocked \cup {0}
  /\ pool_last' = PLast("PoolShutdown", 0, "blocked")
  /\ UNCHANGED <<tok_mode, running, submitted, started, finished, tok_hist>>

\* The end of the wait of ThreadPool::Shutdown: no task is running any more.
PoolShutdownReturn ==
  /\ 0 \in blocked
  /\ running = {}
  /\ blocked' = blocked \ {0}
  /\ pool_last' = PLast("PoolShutdown", 0, "returned")
  /\ UNCHANGED <<pool_status_ok, queue_, tok_mode, tok_state, entries_, running,
                 submitted, started, finished, tok_hist>>

----------------------------------------------------------------------------
\* The directory manager.

dirVars == <<dm_state, metrics_, opts_, failed_dirs_, dirs_failed, is_full_, dirs_full,
             available_bytes_, last_space_check_, now, instances_, lock_attempted,
             tmp_deleted, uuid_by_idx_, idx_by_uuid_, dir_last>>

\* Bound of the directory model.
NumDirs == 3       \* directories (canonicalized_fs_roots_.size())

\* The uuid indexes, assigned by PopulateDirectoryMaps in the order of dirs_.
Dirs == 0..(NumDirs - 1)

\* last_space_check_ of a Dir that never polled: the MonoTime is not
\* Initialized().
Uninitialized == -1

\* FLAGS_fs_data_dirs_available_space_cache_seconds, in ticks of 'now'.
available_space_cache_secs == 2

\* How DirManagerOptions are set: read-write with update_instances other than
\* DONT_UPDATE ("rw_update"), read-write without update ("rw": DONT_UPDATE or
\* the "file" dir type), read-only ("ro"); lock_dirs() on or off.
OpenModes == {"rw_update", "rw", "ro"}

DLast(op, idx, status, was_failed) ==
  [op |-> op, idx |-> idx, status |-> status, was_failed |-> was_failed]

DirInit ==
  /\ dm_state = "new"
  /\ metrics_ \in BOOLEAN
  /\ opts_ \in [mode : OpenModes, lock_dirs : BOOLEAN]
  /\ failed_dirs_ = {}
  /\ dirs_failed = 0
  /\ is_full_ = [d \in Dirs |-> FALSE]
  /\ dirs_full = 0
  /\ available_bytes_ = [d \in Dirs |-> 0]
  /\ last_space_check_ = [d \in Dirs |-> Uninitialized]
  /\ now = 0
  /\ instances_ = [d \in Dirs |-> "none"]
  /\ lock_attempted = {}
  /\ tmp_deleted = {}
  /\ uuid_by_idx_ = {}
  /\ idx_by_uuid_ = {}
  /\ dir_last = DLast("Init", 0, "OK", FALSE)

\* MarkDirFailedResult that tests for 'all failed' before it inserts, and
\* leaves the last healthy directory out of the failed set.
MarkDirFailedResultRefusing(failed, metric, idx) ==
  IF idx \in failed
    THEN [failed |-> failed, metric |-> metric, status |-> "OK"]
  ELSE IF failed \cup {idx} = Dirs
    THEN [failed |-> failed, metric |-> metric, status |-> "IOError"]
  ELSE [failed |-> failed \cup {idx},
        metric |-> IF metrics_ THEN metric + 1 ELSE metric,
        status |-> "OK"]

\* MarkDirFailedResult that counts the failure whether or not the directory
\* was already in the failed set.
MarkDirFailedResultCounting(failed, metric, idx) ==
  IF idx \notin failed /\ failed \cup {idx} = Dirs
    THEN [failed |-> failed \cup {idx}, metric |-> metric, status |-> "IOError"]
  ELSE [failed |-> failed \cup {idx},
        metric |-> IF metrics_ THEN metric + 1 ELSE metric,
        status |-> "OK"]

\* DirManager::MarkDirFailed on the failed set 'failed' and the dirs_failed
\* metric 'metric': InsertIfNotPresent comes first, the test for 'all
\* directories failed' second, the metric last.
MarkDirFailedResult(failed, metric, idx) ==
  IF idx \in failed
    THEN [failed |-> failed, metric |-> metric, status |-> "OK"]
  ELSE IF failed \cup {idx} = Dirs
    THEN [failed |-> failed \cup {idx}, metric |-> metric, status |-> "IOError"]
  ELSE [failed |-> failed \cup {idx},
        metric |-> IF metrics_ THEN metric + 1 ELSE metric,
        status |-> "OK"]

\* DirManager::MarkDirFailed.  It leaves the instance of the directory, and
\* so instance()->healthy(), as it is.
MarkDirFailed(idx) ==
  /\ dm_state = "open"
  /\ LET r == MarkDirFailedResult(failed_dirs_, dirs_failed, idx) IN
     /\ failed_dirs_' = r.failed
     /\ dirs_failed' = r.metric
     /\ dir_last' = DLast("MarkDirFailed", idx, r.status, idx \in failed_dirs_)
  /\ UNCHANGED <<dm_state, metrics_, opts_, is_full_, dirs_full, available_bytes_,
                 last_space_check_, now, instances_, lock_attempted, tmp_deleted,
                 uuid_by_idx_, idx_by_uuid_>>

----------------------------------------------------------------------------
\* Dir::RefreshAvailableSpace.

\* The answers of env_util::VerifySufficientDiskSpace.
PollStatuses == {"ok", "ENOSPC", "disk_failure", "error"}

\* The cached space information of a Dir.
SpaceOf(full, bytes, last) ==
  [is_full |-> full, available_bytes |-> bytes, last_space_check |-> last]

\* The change of the dirs_full metric when a Dir's fullness goes from 'old'
\* to 'new'.
FullDelta(old, new) ==
  IF ~metrics_ \/ old = new THEN 0 ELSE IF new THEN 1 ELSE -1

\* What RefreshAvailableSpace leaves when it does not touch the Dir.
Untouched(cur, status, polled) ==
  [dir |-> cur, status |-> status, polled |-> polled, full_delta |-> 0]

\* What RefreshAvailableSpace leaves when it stores the result of a poll.
Stored(cur, full, bytes, t) ==
  [dir |-> SpaceOf(full, bytes, t), status |-> "OK", polled |-> TRUE,
   full_delta |-> FullDelta(cur.is_full, full)]

\* RefreshSpace that treats ENOSPC like every other error.
RefreshSpaceEnospcFails(cur, mode, t, poll) ==
  IF mode = "EXPIRED_ONLY" /\ t < cur.last_space_check + available_space_cache_secs
    THEN Untouched(cur, "OK", FALSE)
  ELSE IF poll.status = "ok" THEN Stored(cur, FALSE, poll.bytes, t)
  ELSE Untouched(cur, poll.status, TRUE)

\* Dir::RefreshAvailableSpace on the cached information 'cur' at time 't';
\* 'poll' is what VerifySufficientDiskSpace answers if it is called.
RefreshSpace(cur, mode, t, poll) ==
  IF mode = "EXPIRED_ONLY" /\ t < cur.last_space_check + available_space_cache_secs
    THEN Untouched(cur, "OK", FALSE)
  ELSE IF poll.status = "ENOSPC" THEN Stored(cur, TRUE, poll.bytes, t)
  ELSE IF poll.status = "ok" THEN Stored(cur, FALSE, poll.bytes, t)
  ELSE Untouched(cur, poll.status, TRUE)

----------------------------------------------------------------------------
\* DirManager::Open.

\* What the environment answers for one directory during LoadInstances and
\* the rest of Open:
\*   load     - the root's status and LoadFromDisk: the instance is healthy,
\*              is marked unhealthy (bad root, file not found, disk failure),
\*              or LoadFromDisk returns an error;
\*   uuid     - the uuid in the instance file: the directory's own, or, for
\*              directory 1, that of directory 0 (an operator copied the
\*              instance file);
\*   lock     - instance->Lock(): taken, refused, or the instance is marked
\*              unhealthy by it;
\*   fs_check - IsOnExtFilesystem / IsOnXfsFilesystem; "disk_failure" also
\*              stands for a Dir whose constructor fails its instance;
\*   refresh  - the first RefreshAvailableSpace.
\* An answer that is not read for a directory is left at its first value.
DirAnswersOf(d) ==
  {a \in [load : {"healthy", "unhealthy", "error"}, uuid : {"own", "dup0"},
          lock : {"ok", "busy", "unhealthy"},
          fs_check : {"ok", "disk_failure", "error"}, refresh : PollStatuses] :
     /\ d # 1 => a.uuid = "own"
     /\ a.load # "healthy" => a.uuid = "own" /\ a.lock = "ok"
     /\ (a.load # "healthy" \/ a.lock # "ok") => a.fs_check = "ok"
     /\ (a.load # "healthy" \/ a.lock # "ok" \/ a.fs_check # "ok") => a.refresh = "ok"}

Answers == {f \in [Dirs -> DirAnswersOf(1)] : \A d \in Dirs : f[d] \in DirAnswersOf(d)}

\* The answers to the LoadInstances that precedes
\* CreateNewDirectoriesAndUpdateInstances, the same for all directories but
\* in "partial", where only directory 0 is healthy.
FirstLoadKinds == {"healthy", "unhealthy", "partial", "duplicate", "busy", "error"}

FirstLoadAnswer(kind) ==
  [d \in Dirs |->
     [load |-> IF kind = "error" THEN "error"
               ELSE IF kind = "unhealthy" \/ (kind = "partial" /\ d # 0) THEN "unhealthy"
               ELSE "healthy",
      uuid |-> IF kind = "duplicate" /\ d = 1 THEN "dup0" ELSE "own",
      lock |-> IF kind = "busy" THEN "busy" ELSE "ok",
      fs_check |-> "ok", refresh |-> "ok"]]

\* The inputs of one Open.  Only an Open that updates instances loads twice.
OpenInputs ==
  IF opts_.mode = "rw_update"
    THEN {in \in {[first |-> FirstLoadAnswer(k), update_ok |-> u, ans |-> a] :
                    k \in FirstLoadKinds, u \in BOOLEAN, a \in Answers} :
            in.update_ok \/ in.first \in {FirstLoadAnswer("healthy"),
                                          FirstLoadAnswer("partial")}}
    ELSE {[first |-> a, update_ok |-> TRUE, ans |-> a] : a \in Answers}

\* LockMode that makes the lock optional in every open mode.
LockModeNeverMandatory == IF ~opts_.lock_dirs THEN "NONE" ELSE "OPTIONAL"

\* DirManager::LoadInstances: the lock mode.
LockMode ==
  IF ~opts_.lock_dirs THEN "NONE"
  ELSE IF opts_.mode = "ro" THEN "OPTIONAL"
  ELSE "MANDATORY"

\* instance->uuid(): the uuid read from the instance file, or the backup uuid
\* generated for the instance when the file could not be loaded.
InstanceUuid(d, a) ==
  IF a.load = "healthy" THEN (IF a.uuid = "dup0" THEN 0 ELSE d) ELSE NumDirs + d

\* The loop of DirManager::LoadInstances over the roots, from root i on.
RECURSIVE LoadFrom(_, _, _)
LoadFrom(i, st, ans) ==
  IF i \notin Dirs \/ st.status # "OK" THEN st
  ELSE IF ans[i].load = "error" THEN [st EXCEPT !.status = "load_error"]
  ELSE IF ans[i].load = "unhealthy"
    THEN LoadFrom(i + 1, [st EXCEPT !.health[i] = "failed"], ans)
  ELSE IF LockMode = "NONE"
    THEN LoadFrom(i + 1, [st EXCEPT !.health[i] = "healthy"], ans)
  ELSE LET tried == [st EXCEPT !.attempted = @ \cup {i}] IN
       IF ans[i].lock = "busy" /\ LockMode = "MANDATORY"
         THEN [tried EXCEPT !.status = "lock_error"]
       ELSE LoadFrom(i + 1,
              [tried EXCEPT !.health[i] =
                 IF ans[i].lock = "unhealthy" THEN "failed" ELSE "healthy"], ans)

\* DirManager::LoadInstances
LoadInstances(ans) ==
  LoadFrom(0, [status |-> "OK", health |-> [d \in Dirs |-> "none"], attempted |-> {}], ans)

\* HasHealthy that asks for every instance to be healthy.
HasHealthyAll(health) == \A d \in Dirs : health[d] = "healthy"

\* Whether LoadInstances found a healthy instance (has_healthy_instances).
HasHealthy(health) == \E d \in Dirs : health[d] = "healthy"

\* CreateNewDirectoriesAndUpdateInstances: the test for duplicate uuids, then
\* the creation and the update of instance files (which succeed or not).
CreateNewDirectoriesAndUpdateInstances(in) ==
  IF \E d, e \in Dirs : d # e /\ InstanceUuid(d, in.first[d]) = InstanceUuid(e, in.first[e])
    THEN "InvalidArgument"
  ELSE IF in.update_ok THEN "OK" ELSE "update_error"

\* The loop of DirManager::Open that creates the Dirs, from instance i on:
\* a disk failure of the file system check fails the instance, any other
\* error of the check ends Open.
RECURSIVE CreateDirsFrom(_, _, _)
CreateDirsFrom(i, st, ans) ==
  IF i \notin Dirs \/ st.status # "OK" THEN st
  ELSE IF st.health[i] # "healthy" \/ ans[i].fs_check = "ok"
    THEN CreateDirsFrom(i + 1, st, ans)
  ELSE IF ans[i].fs_check = "disk_failure"
    THEN CreateDirsFrom(i + 1, [st EXCEPT !.health[i] = "failed"], ans)
  ELSE [st EXCEPT !.status = "fs_check_error"]

\* The keys of a map kept as a set of <<key, value>> pairs.
Keys(map) == {p[1] : p \in map}

\* InsertToMaps that overwrites an entry instead of dying on a duplicate.
InsertToMapsOverwriting(st, idx, uuid, healthy) ==
  [st EXCEPT
     !.failed = IF healthy THEN @ ELSE @ \cup {idx},
     !.metric = IF ~healthy /\ metrics_ THEN @ + 1 ELSE @,
     !.ubi = {p \in @ : p[1] # idx} \cup {<<idx, uuid>>},
     !.ibu = {p \in @ : p[1] # uuid} \cup {<<uuid, idx>>}]

\* DirManager::InsertToMaps; InsertOrDie aborts the process on a key that is
\* already present.
InsertToMaps(st, idx, uuid, healthy) ==
  IF \/ ~healthy /\ idx \in st.failed
     \/ idx \in Keys(st.ubi)
     \/ uuid \in Keys(st.ibu)
    THEN [st EXCEPT !.died = TRUE]
  ELSE [st EXCEPT
          !.failed = IF healthy THEN @ ELSE @ \cup {idx},
          !.metric = IF ~healthy /\ metrics_ THEN @ + 1 ELSE @,
          !.ubi = @ \cup {<<idx, uuid>>},
          !.ibu = @ \cup {<<uuid, idx>>}]

\* DirManager::PopulateDirectoryMaps, from index idx on.
RECURSIVE PopulateDirectoryMaps(_, _, _, _)
PopulateDirectoryMaps(idx, st, health, ans) ==
  IF idx \notin Dirs \/ st.died THEN st
  ELSE PopulateDirectoryMaps(idx + 1,
         InsertToMaps(st, idx, InstanceUuid(idx, ans[idx]), health[idx] = "healthy"),
         health, ans)

\* The number of free bytes a poll during Open reports.
PolledBytes(status) == IF status = "ok" THEN 1 ELSE 0

\* The loop of DirManager::Open that initializes the fullness of the
\* directories, from index i on; 'st' is the state reached so far.
RECURSIVE RefreshFrom(_, _, _)
RefreshFrom(i, st, ans) ==
  IF i \notin Dirs \/ st.status # "OK" THEN st
  ELSE IF i \in st.failed THEN RefreshFrom(i + 1, st, ans)
  ELSE LET r == RefreshSpace(SpaceOf(st.full[i], st.bytes[i], st.last[i]), "ALWAYS", now,
                             [status |-> ans[i].refresh,
                              bytes |-> PolledBytes(ans[i].refresh)])
       IN
       IF r.status = "OK"
         THEN RefreshFrom(i + 1,
                [st EXCEPT !.full[i] = r.dir.is_full,
                           !.full_metric = @ + r.full_delta,
                           !.bytes[i] = r.dir.available_bytes,
                           !.last[i] = r.dir.last_space_check], ans)
       ELSE IF r.status = "disk_failure"
         THEN LET m == MarkDirFailedResult(st.failed, st.metric, i) IN
              RefreshFrom(i + 1,
                [st EXCEPT !.failed = m.failed, !.metric = m.metric, !.status = m.status],
                ans)
       ELSE [st EXCEPT !.status = "refresh_error"]

\* The result of an Open that ends before the in-memory maps are populated:
\* the DirManager keeps its members, 'load' is the last LoadInstances.
OpenEnds(status, load, health) ==
  [status |-> status, health |-> health, attempted |-> load.attempted,
   tmp |-> {}, failed |-> failed_dirs_, metric |-> dirs_failed,
   ubi |-> uuid_by_idx_, ibu |-> idx_by_uuid_,
   full |-> is_full_, full_metric |-> dirs_full,
   bytes |-> available_bytes_, last |-> last_space_check_]

\* DirManager::Open as a function of the environment's answers: the status
\* it returns and the members it leaves behind.
OpenResult(in) ==
  LET l1 == LoadInstances(in.first) IN
  IF l1.status # "OK" THEN OpenEnds(l1.status, l1, l1.health)
  ELSE IF ~HasHealthy(l1.health) THEN OpenEnds("NotFound", l1, l1.health)
  ELSE
  LET updating == opts_.mode = "rw_update"
      upd == IF updating THEN CreateNewDirectoriesAndUpdateInstances(in) ELSE "OK"
      l == IF updating THEN LoadInstances(in.ans) ELSE l1
  IN
  IF upd # "OK" THEN OpenEnds(upd, l1, l1.health)
  ELSE IF l.status # "OK" THEN OpenEnds(l.status, l, l.health)
  ELSE IF ~HasHealthy(l.health) THEN OpenEnds("IOError_no_healthy", l, l.health)
  ELSE
  LET c == CreateDirsFrom(0, [status |-> "OK", health |-> l.health], in.ans) IN
  IF c.status # "OK" THEN OpenEnds(c.status, l, c.health)
  ELSE
  LET tmp == {d \in Dirs : c.health[d] = "healthy"}
      m == PopulateDirectoryMaps(0,
             [failed |-> failed_dirs_, metric |-> dirs_failed,
              ubi |-> uuid_by_idx_, ibu |-> idx_by_uuid_, died |-> FALSE],
             c.health, in.ans)
  IN
  IF m.died THEN [OpenEnds("CHECK", l, c.health) EXCEPT !.tmp = tmp]
  ELSE
  LET r == RefreshFrom(0, [failed |-> m.failed, metric |-> m.metric, full |-> is_full_,
                           full_metric |-> dirs_full,
                           bytes |-> available_bytes_, last |-> last_space_check_,
                           status |-> "OK"], in.ans)
  IN
  [status |-> r.status, health |-> c.health, attempted |-> l.attempted, tmp |-> tmp,
   failed |-> r.failed, metric |-> r.metric, ubi |-> m.ubi, ibu |-> m.ibu,
   full |-> r.full, full_metric |-> r.full_metric,
   bytes |-> r.bytes, last |-> r.last]

\* DirManager::Open
Open(in) ==
  /\ dm_state = "new"
  /\ \E r \in {OpenResult(in)} :
     /\ dm_state' = IF r.status = "OK" THEN "open"
                    ELSE IF r.status = "CHECK" THEN "crashed"
                    ELSE "open_failed"
     /\ instances_' = r.health
     /\ lock_attempted' = r.attempted
     /\ tmp_deleted' = r.tmp
     /\ failed_dirs_' = r.failed
     /\ dirs_failed' = r.metric
     /\ uuid_by_idx_' = r.ubi
     /\ idx_by_uuid_' = r.ibu
     /\ is_full_' = r.full
     /\ dirs_full' = r.full_metric
     /\ available_bytes_' = r.bytes
     /\ last_space_check_' = r.last
     /\ dir_last' = DLast("Open", 0, r.status, FALSE)
  /\ UNCHANGED <<metrics_, opts_, now>>

\* The times at which the space of a directory is refreshed.
MaxTime == 4

\* The numbers of available bytes a poll can report.
MaxBytes == 2

\* The directories whose space is refreshed after Open: every Dir refreshes
\* its own members under its own lock, one Dir stands for all.
SpaceDirs == {0}

\* What VerifySufficientDiskSpace can answer.
Polls == [status : PollStatuses, bytes : 0..MaxBytes]

\* Dir::RefreshAvailableSpace(mode) on directory d at time 'now'.  EXPIRED_ONLY
\* is only used on a Dir whose space has been checked before.
RefreshAvailableSpace(d, mode, poll) ==
  /\ dm_state = "open"
  /\ mode = "EXPIRED_ONLY" => last_space_check_[d] # Uninitialized
  /\ \E r \in {RefreshSpace(SpaceOf(is_full_[d], available_bytes_[d], last_space_check_[d]),
                            mode, now, poll)} :
     /\ is_full_' = [is_full_ EXCEPT ![d] = r.dir.is_full]
     /\ available_bytes_' = [available_bytes_ EXCEPT ![d] = r.dir.available_bytes]
     /\ last_space_check_' = [last_space_check_ EXCEPT ![d] = r.dir.last_space_check]
     /\ dirs_full' = dirs_full + r.full_delta
     /\ dir_last' = [op |-> "RefreshAvailableSpace", idx |-> d, status |-> r.status,
                     was_failed |-> d \in failed_dirs_, polled |-> r.polled]
  /\ UNCHANGED <<dm_state, metrics_, opts_, failed_dirs_, dirs_failed, now, instances_,
                 lock_attempted, tmp_deleted, uuid_by_idx_, idx_by_uuid_>>

\* MonoTime::Now() advances.
Tick ==
  /\ now < MaxTime
  /\ now' = now + 1
  /\ UNCHANGED <<dm_state, metrics_, opts_, failed_dirs_, dirs_failed, is_full_, dirs_full,
                 available_bytes_, last_space_check_, instances_, lock_attempted,
                 tmp_deleted, uuid_by_idx_, idx_by_uuid_, dir_last>>

----------------------------------------------------------------------------
\* DirManager::UpdateHealthyInstances.

updVars == <<update_instances, instances_to_update, instance_file, copy_file, upd_last>>

UpdateModes == {"UPDATE_AND_IGNORE_FAILURES", "UPDATE_AND_ERROR_ON_FAILURE"}

\* What is recorded of a call: its status and the directories whose copy
\* failed, whose rewrite failed, whose rewrite succeeded, and whose copy could
\* not be deleted or renamed back by the cleanup.
ULast(status, copy_failed, write_failed, rewritten, cleanup_failed) ==
  [status |-> status, copy_failed |-> copy_failed, write_failed |-> write_failed,
   rewritten |-> rewritten, cleanup_failed |-> cleanup_failed]

\* Before the call: the instances passed in are healthy (only healthy
\* instances are collected for an update), their files have the old content
\* and no copy exists.
UpdInit ==
  /\ update_instances \in UpdateModes
  /\ instances_to_update \in [Dirs -> {"absent", "healthy"}]
  /\ \E d \in Dirs : instances_to_update[d] = "healthy"
  /\ instance_file = [d \in Dirs |-> "old"]
  /\ copy_file = [d \in Dirs |-> "none"]
  /\ upd_last = ULast("none", {}, {}, {}, {})

\* What the file system answers for one directory:
\*   copy    - env_util::CopyFile: done, failed leaving nothing, or failed
\*             leaving a torn copy;
\*   write   - WritePBContainerToPath: done, failed before the file was
\*             touched, or failed leaving a torn file;
\*   cleanup - whether the DeleteFile or RenameFile of the copy in the cleanup
\*             succeeds.
\* Answers that are never read are fixed.
DirFaults ==
  {a \in [copy : {"ok", "fail", "torn"}, write : {"ok", "fail", "torn"}, cleanup : BOOLEAN] :
     a.copy # "ok" => a.write = "ok" /\ a.cleanup}

UpdateInputs ==
  {in \in [Dirs -> DirFaults] :
     \A d \in Dirs : instances_to_update[d] = "absent" =>
                       in[d] = [copy |-> "ok", write |-> "ok", cleanup |-> TRUE]}

\* UpdateHealthyInstances that never returns the error.
ReturnsErrorNever(failed) == FALSE

\* UpdateHealthyInstances: whether the call returns the health status of an
\* instance instead of OK.
ReturnsError(failed) ==
  update_instances = "UPDATE_AND_ERROR_ON_FAILURE" /\ failed # {}

\* UpdateHealthyInstances as a function of the file system's answers.
UpdateResult(in) ==
  LET passed == {d \in Dirs : instances_to_update[d] = "healthy"}
      \* first loop: copy every healthy instance file
      copy_failed == {d \in passed : in[d].copy # "ok"}
      copied == passed \ copy_failed
      \* second loop: rewrite every instance that is still healthy; its copy
      \* moves from copies_to_delete to copies_to_restore
      write_failed == {d \in copied : in[d].write # "ok"}
      rewritten == copied \ write_failed
      written == [d \in Dirs |->
                    IF d \in rewritten THEN "new"
                    ELSE IF d \in write_failed /\ in[d].write = "torn" THEN "torn"
                    ELSE instance_file[d]]
      err == ReturnsError(copy_failed \cup write_failed)
      \* the cleanup: on an error return copies_to_restore holds every copy
      \* and is renamed back; otherwise every copy is deleted
      cleanup_failed == {d \in copied : ~in[d].cleanup}
  IN
  [status |-> IF err THEN "error" ELSE "OK",
   health |-> [d \in Dirs |->
                 IF d \in copy_failed \cup write_failed THEN "failed"
                 ELSE instances_to_update[d]],
   files |-> [d \in Dirs |->
                IF err /\ d \in copied \ cleanup_failed THEN "old" ELSE written[d]],
   copies |-> [d \in Dirs |->
                 IF d \in copy_failed
                   THEN IF in[d].copy = "torn" THEN "torn" ELSE copy_file[d]
                 ELSE IF d \in cleanup_failed THEN "copy"
                 ELSE copy_file[d]],
   last |-> ULast(IF err THEN "error" ELSE "OK", copy_failed, write_failed, rewritten,
                  cleanup_failed)]

\* DirManager::UpdateHealthyInstances
UpdateHealthyInstances(in) ==
  /\ upd_last.status = "none"
  /\ \E r \in {UpdateResult(in)} :
     /\ instances_to_update' = r.health
     /\ instance_file' = r.files
     /\ copy_file' = r.copies
     /\ upd_last' = r.last
  /\ UNCHANGED update_instances

----------------------------------------------------------------------------
\* The maintenance operations of a tablet replica
\* (kudu/tablet/tablet_replica_mm_ops.cc).

mmVars == <<flush_threshold_mb, flush_threshold_secs, flush_upper_bound_ms,
            mrs_half_mb, time_since_flush_, rowsets_flush_sem_, sem_, performing,
            stopped, mm_aborted, mm_last>>

\* Bounds of the maintenance model.
MaxMrsHalfMb == 6      \* the MemRowSet grows up to this many half MiB
MaxElapsedTicks == 3   \* time_since_flush_ runs up to this many ticks of 2000 ms

\* The values of the flags.  flush_threshold_secs is an int32 that the code
\* multiplies by 1000: 2147484 is the smallest value whose product does not
\* fit.
FlushThresholdMbs == {1, 2}
FlushThresholdSecs == {1, 2147484}
FlushUpperBoundMs == {0, 4000}

\* A double that is a quotient of two integers, kept as numerator and
\* denominator (d >= 0); d = 0 stands for an infinity (n # 0) or a NaN
\* (n = 0), and the comparisons below then answer as IEEE 754 does.
Rat(n, d) == [n |-> n, d |-> d]
RatLess(x, y) == x.n * y.d < y.n * x.d
RatGeq(x, y) == x.n * y.d >= y.n * x.d /\ ~(x.n = 0 /\ x.d = 0) /\ ~(y.n = 0 /\ y.d = 0)
RatEq(x, y) == x.n * y.d = y.n * x.d /\ (x.d = 0 <=> y.d = 0)

\* x / y on doubles, for integers x and y.
Quotient(x, y) ==
  IF y > 0 THEN Rat(x, y)
  ELSE IF y < 0 THEN Rat(0 - x, 0 - y)
  ELSE Rat(IF x > 0 THEN 1 ELSE IF x < 0 THEN -1 ELSE 0, 0)

\* std::max(a, b) and std::min(a, b) on doubles.
StdMax(a, b) == IF RatLess(a, b) THEN b ELSE a
StdMin(a, b) == IF RatLess(b, a) THEN b ELSE a

\* MaintenanceOpStats after Clear(), which the maintenance manager calls
\* before every UpdateStats; ram_anchored is in half MiB.
ClearedStats == [runnable |-> FALSE, ram_anchored |-> 0, perf_improvement |-> Rat(0, 1)]

MLast(op, out) == [op |-> op, out |-> out, stats |-> ClearedStats]

\* FLAGS_flush_threshold_secs * 1000 in int32.  A product that does not fit
\* is undefined: the build either wraps it around modulo 2^32 or, with
\* overflow checking compiled in, stops the process.
ThresholdMsOutcomes(secs) ==
  IF secs <= 2147483
    THEN {[trap |-> FALSE, ms |-> secs * 1000]}
    ELSE {[trap |-> FALSE, ms |-> (secs - 2147484) * 1000 - 2147483296],
          [trap |-> TRUE, ms |-> 0]}

\* FlushOpPerfImprovementPolicy::SetPerfImprovementForFlush; 'threshold_ms'
\* is the value of FLAGS_flush_threshold_secs * 1000.
SetPerfImprovementForFlush(stats, elapsed_ms, threshold_ms) ==
  LET anchored_mb == Rat(stats.ram_anchored, 2)
      threshold_mb == Rat(flush_threshold_mb, 1) IN
  IF RatGeq(anchored_mb, threshold_mb)
    THEN [stats EXCEPT !.perf_improvement =
            StdMax(Rat(1, 1), Rat(stats.ram_anchored - 2 * flush_threshold_mb, 2))]
  ELSE IF elapsed_ms > threshold_ms
    THEN [stats EXCEPT !.perf_improvement =
            StdMin(Rat(1, 1),
                   StdMax(Quotient(elapsed_ms, flush_upper_bound_ms),
                          Quotient(stats.ram_anchored, 2 * flush_threshold_mb)))]
  ELSE stats

MmInit ==
  /\ flush_threshold_mb \in FlushThresholdMbs
  /\ flush_threshold_secs \in FlushThresholdSecs
  /\ flush_upper_bound_ms \in FlushUpperBoundMs
  /\ mrs_half_mb = 0
  /\ time_since_flush_ = 0
  /\ rowsets_flush_sem_ = 1
  /\ sem_ = 1
  /\ performing = [flush |-> 0, gc |-> 0]
  /\ stopped = FALSE
  /\ mm_aborted = FALSE
  /\ mm_last = MLast("Init", "ok")

\* Rows are inserted into the MemRowSet.
Insert ==
  /\ ~mm_aborted /\ ~stopped
  /\ mrs_half_mb < MaxMrsHalfMb
  /\ mrs_half_mb' = mrs_half_mb + 1
  /\ mm_last' = MLast("Insert", "ok")
  /\ UNCHANGED <<flush_threshold_mb, flush_threshold_secs, flush_upper_bound_ms,
                 time_since_flush_, rowsets_flush_sem_, sem_, performing, stopped,
                 mm_aborted>>

\* Time passes on the time_since_flush_ stopwatch.
MmTick ==
  /\ ~mm_aborted
  /\ time_since_flush_ < MaxElapsedTicks * 2000
  /\ time_since_flush_' = time_since_flush_ + 2000
  /\ mm_last' = MLast("Tick", "ok")
  /\ UNCHANGED <<flush_threshold_mb, flush_threshold_secs, flush_upper_bound_ms,
                 mrs_half_mb, rowsets_flush_sem_, sem_, performing, stopped, mm_aborted>>

\* The tablet is stopped (Tablet::HasBeenStopped() becomes true).
StopTablet ==
  /\ ~mm_aborted /\ ~stopped
  /\ stopped' = TRUE
  /\ mm_last' = MLast("Stop", "ok")
  /\ UNCHANGED <<flush_threshold_mb, flush_threshold_secs, flush_upper_bound_ms,
                 mrs_half_mb, time_since_flush_, rowsets_flush_sem_, sem_, performing,
                 mm_aborted>>

\* stats.Clear() followed by FlushMRSOp::UpdateStats(&stats).
FlushMRSOp_UpdateStats(enable_flush_memrowset, replay_ok, th) ==
  /\ ~mm_aborted
  /\ IF ~enable_flush_memrowset
       THEN /\ mm_last' = MLast("FlushMRSOp::UpdateStats", "disabled")
            /\ UNCHANGED mm_aborted
     ELSE IF mrs_half_mb = 0 \/ ~replay_ok
       THEN /\ mm_last' = MLast("FlushMRSOp::UpdateStats", "skipped")
            /\ UNCHANGED mm_aborted
     ELSE IF th.trap
       THEN /\ mm_aborted' = TRUE
            /\ mm_last' = MLast("FlushMRSOp::UpdateStats", "overflow")
     ELSE /\ mm_last' =
               [op |-> "FlushMRSOp::UpdateStats", out |-> "stats",
                stats |-> SetPerfImprovementForFlush(
                            [ClearedStats EXCEPT !.runnable = (rowsets_flush_sem_ = 1),
                                                 !.ram_anchored = mrs_half_mb],
                            time_since_flush_, th.ms)]
          /\ UNCHANGED mm_aborted
  /\ UNCHANGED <<flush_threshold_mb, flush_threshold_secs, flush_upper_bound_ms,
                 mrs_half_mb, time_since_flush_, rowsets_flush_sem_, sem_, performing,
                 stopped>>

\* Semaphore::try_lock: the semaphore is taken if its value is 1.
TryLock(sem) == sem = 1

\* FlushMRSOp::Prepare
FlushMRSOp_Prepare ==
  /\ ~mm_aborted
  /\ IF TryLock(rowsets_flush_sem_)
       THEN /\ rowsets_flush_sem_' = 0
            /\ performing' = [performing EXCEPT !.flush = @ + 1]
            /\ mm_last' = MLast("FlushMRSOp::Prepare", "true")
       ELSE /\ UNCHANGED <<rowsets_flush_sem_, performing>>
            /\ mm_last' = MLast("FlushMRSOp::Prepare", "false")
  /\ UNCHANGED <<flush_threshold_mb, flush_threshold_secs, flush_upper_bound_ms,
                 mrs_half_mb, time_since_flush_, sem_, stopped, mm_aborted>>

\* FlushMRSOp::Perform that returns early on a failed flush, before the
\* cleanup is installed.
FlushMRSOp_PerformKeepsLock(flush_ok) ==
  /\ ~mm_aborted
  /\ performing.flush > 0
  /\ IF TryLock(rowsets_flush_sem_)
       THEN /\ mm_aborted' = TRUE
            /\ mm_last' = MLast("FlushMRSOp::Perform", "CHECK")
            /\ UNCHANGED <<mrs_half_mb, time_since_flush_, rowsets_flush_sem_, performing>>
     ELSE IF flush_ok
       THEN /\ mrs_half_mb' = 0
            /\ time_since_flush_' = 0
            /\ rowsets_flush_sem_' = 1
            /\ performing' = [performing EXCEPT !.flush = @ - 1]
            /\ mm_last' = MLast("FlushMRSOp::Perform", "flushed")
            /\ UNCHANGED mm_aborted
     ELSE IF stopped
       THEN /\ performing' = [performing EXCEPT !.flush = @ - 1]
            /\ mm_last' = MLast("FlushMRSOp::Perform", "failed_stopped")
            /\ UNCHANGED <<mrs_half_mb, time_since_flush_, rowsets_flush_sem_, mm_aborted>>
     ELSE /\ mm_aborted' = TRUE
          /\ mm_last' = MLast("FlushMRSOp::Perform", "fatal")
          /\ UNCHANGED <<mrs_half_mb, time_since_flush_, rowsets_flush_sem_, performing>>
  /\ UNCHANGED <<flush_threshold_mb, flush_threshold_secs, flush_upper_bound_ms,
                 sem_, stopped>>

\* FlushMRSOp::Perform that restarts the stopwatch whether or not the flush
\* succeeded.
FlushMRSOp_PerformRestartsAlways(flush_ok) ==
  /\ ~mm_aborted
  /\ performing.flush > 0
  /\ IF TryLock(rowsets_flush_sem_)
       THEN /\ mm_aborted' = TRUE
            /\ mm_last' = MLast("FlushMRSOp::Perform", "CHECK")
            /\ UNCHANGED <<mrs_half_mb, time_since_flush_, rowsets_flush_sem_, performing>>
     ELSE IF flush_ok
       THEN /\ mrs_half_mb' = 0
            /\ time_since_flush_' = 0
            /\ rowsets_flush_sem_' = 1
            /\ performing' = [performing EXCEPT !.flush = @ - 1]
            /\ mm_last' = MLast("FlushMRSOp::Perform", "flushed")
            /\ UNCHANGED mm_aborted
     ELSE IF stopped
       THEN /\ rowsets_flush_sem_' = 1
            /\ time_since_flush_' = 0
            /\ performing' = [performing EXCEPT !.flush = @ - 1]
            /\ mm_last' = MLast("FlushMRSOp::Perform", "failed_stopped")
            /\ UNCHANGED <<mrs_half_mb, mm_aborted>>
     ELSE /\ mm_aborted' = TRUE
          /\ mm_last' = MLast("FlushMRSOp::Perform", "fatal")
          /\ UNCHANGED <<mrs_half_mb, time_since_flush_, rowsets_flush_sem_, performing>>
  /\ UNCHANGED <<flush_threshold_mb, flush_threshold_secs, flush_upper_bound_ms,
                 sem_, stopped>>

\* FlushMRSOp::Perform, called after a Prepare that returned true;
\* 'flush_ok' is the status of Tablet::FlushUnlocked.
FlushMRSOp_Perform(flush_ok) ==
  /\ ~mm_aborted
  /\ performing.flush > 0
  /\ IF TryLock(rowsets_flush_sem_)
       THEN \* CHECK(!rowsets_flush_sem_.try_lock())
            /\ mm_aborted' = TRUE
            /\ mm_last' = MLast("FlushMRSOp::Perform", "CHECK")
            /\ UNCHANGED <<mrs_half_mb, time_since_flush_, rowsets_flush_sem_, performing>>
     ELSE IF flush_ok
       THEN /\ mrs_half_mb' = 0
            /\ time_since_flush_' = 0             \* time_since_flush_.start()
            /\ rowsets_flush_sem_' = 1            \* SCOPED_CLEANUP: unlock()
            /\ performing' = [performing EXCEPT !.flush = @ - 1]
            /\ mm_last' = MLast("FlushMRSOp::Perform", "flushed")
            /\ UNCHANGED mm_aborted
     ELSE IF stopped
       THEN /\ rowsets_flush_sem_' = 1            \* SCOPED_CLEANUP: unlock()
            /\ performing' = [performing EXCEPT !.flush = @ - 1]
            /\ mm_last' = MLast("FlushMRSOp::Perform", "failed_stopped")
            /\ UNCHANGED <<mrs_half_mb, time_since_flush_, mm_aborted>>
     ELSE \* CHECK(tablet->HasBeenStopped())
          /\ mm_aborted' = TRUE
          /\ mm_last' = MLast("FlushMRSOp::Perform", "fatal")
          /\ UNCHANGED <<mrs_half_mb, time_since_flush_, rowsets_flush_sem_, performing>>
  /\ UNCHANGED <<flush_threshold_mb, flush_threshold_secs, flush_upper_bound_ms,
                 sem_, stopped>>

\* FlushDeltaMemStoresOp::Perform; 'replay_ok' is the status of
\* GetReplaySizeMap and 'flush_ok' that of Tablet::FlushBestDMS.
FlushDeltaMemStoresOp_Perform(replay_ok, flush_ok) ==
  /\ ~mm_aborted
  /\ IF ~replay_ok
       THEN /\ mm_last' = MLast("FlushDeltaMemStoresOp::Perform", "skipped")
            /\ UNCHANGED mm_aborted
     ELSE IF flush_ok
       THEN /\ mm_last' = MLast("FlushDeltaMemStoresOp::Perform", "flushed")
            /\ UNCHANGED mm_aborted
     ELSE IF stopped
       THEN /\ mm_last' = MLast("FlushDeltaMemStoresOp::Perform", "failed_stopped")
            /\ UNCHANGED mm_aborted
     ELSE /\ mm_aborted' = TRUE
          /\ mm_last' = MLast("FlushDeltaMemStoresOp::Perform", "fatal")
  /\ UNCHANGED <<flush_threshold_mb, flush_threshold_secs, flush_upper_bound_ms,
                 mrs_half_mb, time_since_flush_, rowsets_flush_sem_, sem_, performing,
                 stopped>>

\* LogGCOp::Prepare
LogGCOp_Prepare ==
  /\ ~mm_aborted
  /\ IF TryLock(sem_)
       THEN /\ sem_' = 0
            /\ performing' = [performing EXCEPT !.gc = @ + 1]
            /\ mm_last' = MLast("LogGCOp::Prepare", "true")
       ELSE /\ UNCHANGED <<sem_, performing>>
            /\ mm_last' = MLast("LogGCOp::Prepare", "false")
  /\ UNCHANGED <<flush_threshold_mb, flush_threshold_secs, flush_upper_bound_ms,
                 mrs_half_mb, time_since_flush_, rowsets_flush_sem_, stopped, mm_aborted>>

\* LogGCOp::Perform, called after a Prepare that returned true.
LogGCOp_Perform ==
  /\ ~mm_aborted
  /\ performing.gc > 0
  /\ IF TryLock(sem_)
       THEN \* CHECK(!sem_.try_lock())
            /\ mm_aborted' = TRUE
            /\ mm_last' = MLast("LogGCOp::Perform", "CHECK")
            /\ UNCHANGED <<sem_, performing>>
       ELSE /\ sem_' = 1                          \* RunLogGC(); sem_.unlock()
            /\ performing' = [performing EXCEPT !.gc = @ - 1]
            /\ mm_last' = MLast("LogGCOp::Perform", "done")
            /\ UNCHANGED mm_aborted
  /\ UNCHANGED <<flush_threshold_mb, flush_threshold_secs, flush_upper_bound_ms,
                 mrs_half_mb, time_since_flush_, rowsets_flush_sem_, stopped>>

MmAtRest ==
  /\ MmInit
  /\ flush_threshold_mb = 1
  /\ flush_threshold_secs = 1
  /\ flush_upper_bound_ms = 4000

----------------------------------------------------------------------------
\* The dictionary-encoded binary block: BinaryDictBlockBuilder writes the data
\* blocks of one column file, BinaryDictBlockDecoder reads them back.
dictVars == <<mode_, dict_block_, dictionary_, data_builder_, finished_,
              file_blocks, accepted, bd_last>>

\* The number of values after which a block builder reports IsBlockFull():
\* the file-level dictionary block, and a data block.
MaxDictEntries == 2
MaxBlockItems == 1

\* The strings of the column, the number of values handed to one Add call,
\* and the ordinals of the data blocks a file may hold.
Strings == {"a", "b", "c"}
AddCounts == {1, 2}
BlockOrdinals == {1, 2, 3}

AddInputs == UNION {[1..n -> Strings] : n \in AddCounts}

\* enum DictEncodingMode.
kCodeWordMode == 0
kPlainBinaryMode == 1
DictEncodingModes == {kCodeWordMode, kPlainBinaryMode}

BLast(op, ret) == [op |-> op, ret |-> ret]

\* The two data block builders data_builder_ can point to, freshly made or
\* Reset(), and the full test and single-value Add they share: a builder takes
\* values until it is full.
NewBuilder(kind) == [kind |-> kind, items |-> <<>>]
BuilderIsBlockFull(b) == Len(b.items) >= MaxBlockItems
BuilderAdd(b, v) ==
  IF BuilderIsBlockFull(b)
    THEN [n |-> 0, b |-> b]
    ELSE [n |-> 1, b |-> [b EXCEPT !.items = Append(@, v)]]

\* dict_block_.IsBlockFull()
DictIsBlockFull(dict) == Len(dict) >= MaxDictEntries

\* FindCopy(dictionary_, item, &codeword)
FindCopy(dictionary, item) ==
  IF \E p \in dictionary : p[1] = item
    THEN [found |-> TRUE,
          codeword |-> (CHOOSE p \in dictionary : p[1] = item)[2]]
    ELSE [found |-> FALSE, codeword |-> 0]

\* AddToDict with the codeword taken before the count is decremented.
AddToDictCountAsCodeword(st, val) ==
  IF DictIsBlockFull(st.dict_block_)
    THEN [ok |-> FALSE, codeword |-> 0, st |-> st]
    ELSE LET dict == Append(st.dict_block_, val)
             codeword == Len(dict)
         IN [ok |-> TRUE, codeword |-> codeword,
             st |-> [st EXCEPT !.dict_block_ = dict,
                               !.dictionary_ = @ \cup {<<val, codeword>>}]]

\* BinaryDictBlockBuilder::AddToDict: st holds dict_block_, dictionary_ and
\* data_builder_.
AddToDict(st, val) ==
  IF DictIsBlockFull(st.dict_block_)
    THEN [ok |-> FALSE, codeword |-> 0, st |-> st]
    ELSE LET dict == Append(st.dict_block_, val)
             codeword == Len(dict) - 1
         IN [ok |-> TRUE, codeword |-> codeword,
             st |-> [st EXCEPT !.dict_block_ = dict,
                               !.dictionary_ = @ \cup {<<val, codeword>>}]]

\* The loop of BinaryDictBlockBuilder::AddCodeWords from index i on; the
\* result is the state it leaves and the i it returns.
RECURSIVE AddCodeWordsFrom(_, _, _)
AddCodeWordsFrom(st, vals, i) ==
  IF i = Len(vals)
    THEN [ret |-> i, st |-> st]
    ELSE LET found == FindCopy(st.dictionary_, vals[i + 1])
             added == AddToDict(st, vals[i + 1])
         IN IF ~found.found /\ ~added.ok
              THEN [ret |-> i, st |-> st]
              ELSE LET st1 == IF found.found THEN st ELSE added.st
                       codeword == IF found.found THEN found.codeword
                                                  ELSE added.codeword
                       put == BuilderAdd(st1.data_builder_, codeword)
                   IN IF put.n = 0
                        THEN [ret |-> i, st |-> st1]
                        ELSE AddCodeWordsFrom(
                               [st1 EXCEPT !.data_builder_ = put.b],
                               vals, i + 1)

AddCodeWords(st, vals) == AddCodeWordsFrom(st, vals, 0)

\* data_builder_->Add(vals, count) of the plain builder.
RECURSIVE AddPlainFrom(_, _, _)
AddPlainFrom(st, vals, i) ==
  IF i = Len(vals)
    THEN [ret |-> i, st |-> st]
    ELSE LET put == BuilderAdd(st.data_builder_, vals[i + 1])
         IN IF put.n = 0
              THEN [ret |-> i, st |-> st]
              ELSE AddPlainFrom([st EXCEPT !.data_builder_ = put.b],
                                vals, i + 1)

\* InlineEncodeFixed32 and DecodeFixed32: four bytes, little endian.
EncodeFixed32(v) ==
  <<v % 256, (v \div 256) % 256, (v \div 65536) % 256,
    (v \div 16777216) % 256>>
DecodeFixed32(b) == b[1] + 256 * b[2] + 65536 * b[3] + 16777216 * b[4]

\* The header BinaryDictBlockBuilder::Finish puts before the data.
HeaderOf(mode) == EncodeFixed32(mode)

\* BinaryDictBlockBuilder::IsBlockFull
BlockBuilder_IsBlockFull ==
  \/ BuilderIsBlockFull(data_builder_)
  \/ DictIsBlockFull(dict_block_) /\ mode_ = kCodeWordMode

\* The state after the constructor, which ends with Reset().
DictInit ==
  /\ mode_ = kCodeWordMode
  /\ dict_block_ = <<>>
  /\ dictionary_ = {}
  /\ data_builder_ = NewBuilder("BShufBlockBuilder")
  /\ finished_ = FALSE
  /\ file_blocks = <<>>
  /\ accepted = <<>>
  /\ bd_last = BLast("ctor", 0)

\* BinaryDictBlockBuilder::Add
BlockBuilder_Add(vals) ==
  /\ ~finished_
  /\ LET st == [dict_block_ |-> dict_block_, dictionary_ |-> dictionary_,
                data_builder_ |-> data_builder_]
         r == IF mode_ = kCodeWordMode THEN AddCodeWords(st, vals)
                                       ELSE AddPlainFrom(st, vals, 0)
     IN /\ dict_block_' = r.st.dict_block_
        /\ dictionary_' = r.st.dictionary_
        /\ data_builder_' = r.st.data_builder_
        /\ accepted' = accepted \o SubSeq(vals, 1, r.ret)
        /\ bd_last' = BLast("Add", r.ret)
  /\ UNCHANGED <<mode_, finished_, file_blocks>>

\* BinaryDictBlockBuilder::Finish, and the writer appending the block to the
\* file. The writer finishes a block that holds values: when the builder
\* reports it full, and when the file is closed.
BlockBuilder_Finish ==
  /\ ~finished_
  /\ data_builder_.items # <<>>
  /\ Len(file_blocks) < Cardinality(BlockOrdinals)
  /\ finished_' = TRUE
  /\ file_blocks' = Append(file_blocks,
                           [header |-> HeaderOf(mode_),
                            kind |-> data_builder_.kind,
                            items |-> data_builder_.items])
  /\ bd_last' = BLast("Finish", 0)
  /\ UNCHANGED <<mode_, dict_block_, dictionary_, data_builder_, accepted>>

\* A Reset that goes back to codeword mode when the dictionary has room.
BlockBuilder_ResetSwitchesBack ==
  /\ finished_
  /\ BlockBuilder_IsBlockFull
  /\ IF mode_ = kCodeWordMode /\ DictIsBlockFull(dict_block_)
       THEN /\ mode_' = kPlainBinaryMode
            /\ data_builder_' = NewBuilder("BinaryPlainBlockBuilder")
       ELSE /\ mode_' = kCodeWordMode
            /\ data_builder_' = NewBuilder("BShufBlockBuilder")
  /\ finished_' = FALSE
  /\ bd_last' = BLast("Reset", 0)
  /\ UNCHANGED <<dict_block_, dictionary_, file_blocks, accepted>>

\* BinaryDictBlockBuilder::Reset, which the writer calls after it has finished
\* a full block.
BlockBuilder_Reset ==
  /\ finished_
  /\ BlockBuilder_IsBlockFull
  /\ IF mode_ = kCodeWordMode /\ DictIsBlockFull(dict_block_)
       THEN /\ mode_' = kPlainBinaryMode
            /\ data_builder_' = NewBuilder("BinaryPlainBlockBuilder")
       ELSE /\ mode_' = mode_
            /\ data_builder_' = NewBuilder(data_builder_.kind)
  /\ finished_' = FALSE
  /\ bd_last' = BLast("Reset", 0)
  /\ UNCHANGED <<dict_block_, dictionary_, file_blocks, accepted>>

\* BinaryDictBlockDecoder::ParseHeader: the mode of a block, and the decoder
\* made for its data.
ParseHeader(block) ==
  IF Len(block.header) < 4
    THEN [status |-> "Corruption", mode |-> kCodeWordMode, decoder |-> "none"]
    ELSE LET v == DecodeFixed32(block.header)
         IN IF v \notin DictEncodingModes
              THEN [status |-> "Corruption", mode |-> kCodeWordMode,
                    decoder |-> "none"]
              ELSE [status |-> "OK", mode |-> v,
                    decoder |-> IF v = kCodeWordMode
                                  THEN "BShufBlockDecoder"
                                  ELSE "BinaryPlainBlockDecoder"]

\* dict_decoder_->string_at_index(codeword) on the dictionary block dict.
string_at_index(dict, codeword) == dict[codeword + 1]

\* The data decoder reads back what the builder of the same encoding wrote.
DecoderReads(decoder, block) ==
  \/ decoder = "BShufBlockDecoder" /\ block.kind = "BShufBlockBuilder"
  \/ decoder = "BinaryPlainBlockDecoder"
       /\ block.kind = "BinaryPlainBlockBuilder"

\* BinaryDictBlockDecoder::CopyNextDecodeStrings for all values of a block.
CopyNextDecodeStrings(block, dict) ==
  [i \in 1..Len(block.items) |->
     IF block.items[i] + 1 \in 1..Len(dict)
       THEN string_at_index(dict, block.items[i])
       ELSE "out of range"]

\* BinaryDictBlockDecoder::CopyNextValues for all values of a block, after
\* ParseHeader.
CopyNextValues(block, dict) ==
  LET h == ParseHeader(block)
  IN IF h.status # "OK" \/ ~DecoderReads(h.decoder, block)
       THEN <<"corrupt">>
       ELSE IF h.mode = kCodeWordMode
              THEN CopyNextDecodeStrings(block, dict)
              ELSE block.items

\* The values a reader gets from the data blocks in file order, with the
\* dictionary block AppendExtraInfo writes.
RECURSIVE DecodeBlocks(_, _)
DecodeBlocks(blks, dict) ==
  IF blks = <<>>
    THEN <<>>
    ELSE CopyNextValues(Head(blks), dict) \o DecodeBlocks(Tail(blks), dict)

DictAtRest == DictInit

----------------------------------------------------------------------------
\* BinaryDictBlockDecoder on a data block whose header says kCodeWordMode.
decVars == <<dict_decoder_, data_decoder_, sel, dst, dec_last>>

\* The most rows a data block of the decoder model holds.
MaxRows == 2

\* The row counts asked of CopyNextAndEval, and the position of a string in
\* the order of the column's values.
BatchSizes == {1, 2, 3}
Rank(s) == CASE s = "a" -> 1 [] s = "b" -> 2 [] s = "c" -> 3 [] OTHER -> 0

Min2(a, b) == IF a < b THEN a ELSE b

\* The dictionary blocks a file can have: distinct strings. Those of a key
\* column are in the order of the values.
DictBlocks ==
  {d \in UNION {[1..k -> Strings] : k \in 1..Cardinality(Strings)} :
     \A i, j \in 1..Len(d) : i < j => Rank(d[i]) < Rank(d[j])}

\* The codeword blocks over a dictionary block.
CodeWordBlocks(dict) ==
  UNION {[1..k -> 0..(Len(dict) - 1)] : k \in 1..MaxRows}

\* The predicates pushed down to the column.
Predicates ==
  {[type |-> "IsNotNull", values |-> {}]}
    \cup {[type |-> "InList", values |-> v] : v \in SUBSET Strings}

\* parent_cfile_iter_->GetCodeWordsMatchingPredicate(): the codewords of the
\* dictionary entries the predicate accepts.
CodeWordsMatchingPredicate(pred, dict) ==
  IF pred.type = "IsNotNull"
    THEN {i - 1 : i \in 1..Len(dict)}
    ELSE {i - 1 : i \in {k \in 1..Len(dict) : dict[k] \in pred.values}}

DecLast(op, status, n) ==
  [op |-> op, status |-> status, n |-> n, pos |-> 0, sel |-> <<>>,
   matching |-> {}, type |-> "none", value |-> ""]

DecInit ==
  /\ dict_decoder_ \in DictBlocks
  /\ \E items \in CodeWordBlocks(dict_decoder_) :
       data_decoder_ = [items |-> items, cur_idx_ |-> 0]
  /\ sel = <<>>
  /\ dst = <<>>
  /\ dec_last = DecLast("ParseHeader", "OK", 0)

\* BinaryDictBlockDecoder::SeekToPositionInBlock
SeekToPositionInBlock(pos) ==
  /\ pos \in 0..Len(data_decoder_.items)
  /\ data_decoder_' = [data_decoder_ EXCEPT !.cur_idx_ = pos]
  /\ dec_last' = DecLast("SeekToPositionInBlock", "OK", pos)
  /\ UNCHANGED <<dict_decoder_, sel, dst>>

\* dict_decoder_->SeekAtOrAfterValue: the index of the first dictionary entry
\* not below the value, Len(dict) when there is none (NotFound).
DictSeek(dict, value) ==
  IF \E i \in 1..Len(dict) : Rank(dict[i]) >= Rank(value)
    THEN (CHOOSE i \in 1..Len(dict) :
            /\ Rank(dict[i]) >= Rank(value)
            /\ \A j \in 1..(i - 1) : Rank(dict[j]) < Rank(value)) - 1
    ELSE Len(dict)

\* BinaryDictBlockDecoder::SeekAtOrAfterValue in codeword mode, on a block of
\* a key column (its codewords are in order).
SeekAtOrAfterValue(value) ==
  /\ \A i, j \in 1..Len(data_decoder_.items) :
       i < j => data_decoder_.items[i] <= data_decoder_.items[j]
  /\ LET index == DictSeek(dict_decoder_, value)
         items == data_decoder_.items
     IN IF index = Len(dict_decoder_)
          THEN /\ data_decoder_' =
                    [data_decoder_ EXCEPT !.cur_idx_ = Len(items) - 1]
               /\ dec_last' = [DecLast("SeekAtOrAfterValue", "NotFound", 0)
                                 EXCEPT !.value = value]
          ELSE IF \E i \in 1..Len(items) : items[i] >= index
                 THEN /\ data_decoder_' =
                           [data_decoder_ EXCEPT !.cur_idx_ =
                              (CHOOSE i \in 1..Len(items) :
                                 /\ items[i] >= index
                                 /\ \A j \in 1..(i - 1) : items[j] < index)
                              - 1]
                      /\ dec_last' = [DecLast("SeekAtOrAfterValue", "OK", 0)
                                        EXCEPT !.value = value]
                 ELSE /\ \E pos \in {data_decoder_.cur_idx_, Len(items)} :
                           data_decoder_' =
                             [data_decoder_ EXCEPT !.cur_idx_ = pos]
                      /\ dec_last' =
                           [DecLast("SeekAtOrAfterValue", "NotFound", 0)
                              EXCEPT !.value = value]
  /\ UNCHANGED <<dict_decoder_, sel, dst>>

\* A loop body that sets the bit of every row whose codeword matches.
EvalRowSetsBit(bit, codeword, matching, dict) ==
  IF codeword \in matching
    THEN [bit |-> TRUE, out |-> string_at_index(dict, codeword)]
    ELSE [bit |-> FALSE, out |-> "untouched"]

\* The body of the loop of CopyNextAndEval for one row: the row's selection
\* bit and output cell afterwards.
EvalRow(bit, codeword, matching, dict) ==
  IF ~bit
    THEN [bit |-> FALSE, out |-> "untouched"]
    ELSE IF codeword \in matching
           THEN [bit |-> TRUE, out |-> string_at_index(dict, codeword)]
           ELSE [bit |-> FALSE, out |-> "untouched"]

\* BinaryDictBlockDecoder::CopyNextAndEval in codeword mode: n rows are asked
\* for, sel_in is the selection vector view and the output cells start out
\* untouched.
CopyNextAndEval(n, pred, sel_in) ==
  LET items == data_decoder_.items
      cur == data_decoder_.cur_idx_
      m == Min2(n, Len(items) - cur)
      matching == CodeWordsMatchingPredicate(pred, dict_decoder_)
      row(i) == EvalRow(sel_in[i], items[cur + i], matching, dict_decoder_)
  IN /\ data_decoder_' = [data_decoder_ EXCEPT !.cur_idx_ = cur + m]
     /\ IF matching = {}
          THEN /\ sel' = [i \in 1..n |-> IF i <= m THEN FALSE ELSE sel_in[i]]
               /\ dst' = [i \in 1..n |-> "untouched"]
          ELSE IF pred.type = "IsNotNull"
                 THEN /\ sel' = sel_in
                      /\ dst' = [i \in 1..n |->
                                   IF i <= m
                                     THEN string_at_index(dict_decoder_,
                                                          items[cur + i])
                                     ELSE "untouched"]
                 ELSE /\ sel' = [i \in 1..n |->
                                   IF i <= m THEN row(i).bit ELSE sel_in[i]]
                      /\ dst' = [i \in 1..n |->
                                   IF i <= m THEN row(i).out
                                             ELSE "untouched"]
     /\ dec_last' = [op |-> "CopyNextAndEval", status |-> "OK", n |-> m,
                     pos |-> cur, sel |-> sel_in, matching |-> matching,
                     type |-> pred.type, value |-> ""]
     /\ UNCHANGED dict_decoder_

DecAtRest ==
  /\ dict_decoder_ = <<"a">>
  /\ data_decoder_ = [items |-> <<0>>, cur_idx_ |-> 0]
  /\ sel = <<>>
  /\ dst = <<>>
  /\ dec_last = DecLast("ParseHeader", "OK", 0)

----------------------------------------------------------------------------
\* The consecutive-failure counter of the peer and the warnings logged for
\* failed requests.
warnVars == <<run_log>>

\* failed_attempts_ is followed up to this value.
MaxFailures == 11

\* Peer::ProcessResponseErrorUnlocked with the warning on every fifth failure.
LogsFailedRequestOnMultiples(k) ==
  k % kNumRetriesBetweenLoggingFailedRequest = 0

\* Peer::ProcessResponseErrorUnlocked: whether the warning is logged when
\* failed_attempts_ has become k.
LogsFailedRequest(k) == k % kNumRetriesBetweenLoggingFailedRequest = 1

\* The peer variables that the failure counting leaves alone.
failFrame == <<closed_, has_sent_first_request_, proxy_, enable_tablet_copy,
               raft_tasks, thr, rpcs, untracked, check_failed, request_,
               heartbeater_>>

\* Peer::SendNextRequest sending a request: request_pending_ = true.
RequestSent ==
  /\ ~request_pending_
  /\ request_pending_' = TRUE
  /\ peer_last' = Last("SendNextRequest", "sent")
  /\ UNCHANGED <<failed_attempts_, run_log, failFrame>>

\* Peer::ProcessResponseErrorUnlocked, called by ProcessResponse for every
\* failed request.
ProcessResponseErrorUnlocked ==
  /\ request_pending_
  /\ failed_attempts_ < MaxFailures
  /\ failed_attempts_' = failed_attempts_ + 1
  /\ run_log' = Append(run_log, LogsFailedRequest(failed_attempts_ + 1))
  /\ request_pending_' = FALSE
  /\ peer_last' = Last("ProcessResponseErrorUnlocked",
                       IF LogsFailedRequest(failed_attempts_ + 1)
                         THEN "logged" ELSE "quiet")
  /\ UNCHANGED failFrame

\* Peer::PrepareTabletCopyRequest with tablet copy disabled, called by
\* SendNextRequest: the attempt is counted, no warning of a failed request
\* is logged.
PrepareTabletCopyRequest ==
  /\ ~request_pending_
  /\ ~enable_tablet_copy
  /\ failed_attempts_ < MaxFailures
  /\ failed_attempts_' = failed_attempts_ + 1
  /\ run_log' = Append(run_log, FALSE)
  /\ peer_last' = Last("PrepareTabletCopyRequest", "NotSupported")
  /\ UNCHANGED <<request_pending_, failFrame>>

\* Peer::DoProcessResponse after a successful response: the run of failures
\* ends.
ResponseProcessed ==
  /\ request_pending_
  /\ failed_attempts_' = 0
  /\ run_log' = <<>>
  /\ request_pending_' = FALSE
  /\ peer_last' = Last("DoProcessResponse", "done")
  /\ UNCHANGED failFrame

WarnAtRest == run_log = <<>>

----------------------------------------------------------------------------
\* DirManager::CreateNewDirectoriesAndUpdateInstances and what it leaves on
\* disk.

crVars == <<disk_dirs, disk_files, created_fs_dir_paths_, cr_last>>

\* Bound of the model of the disk.
NumRoots == 3      \* data roots handed to the call

Roots == 0..(NumRoots - 1)

\* Stands for 'no root'.
NoRoot == NumRoots

\* The data directory of root 1 lies inside that of root 0; the other roots
\* lie apart.
Inside(d) == IF d = 1 THEN {0} ELSE {}

\* The disks the call can find: a directory exists only inside an existing
\* one, an instance file only in an existing directory.
Disks ==
  {disk \in [dirs : SUBSET Roots, files : SUBSET Roots] :
     /\ disk.files \subseteq disk.dirs
     /\ \A d \in disk.dirs : Inside(d) \subseteq disk.dirs}

\* What the call is handed and what the environment answers:
\*   health       - per instance, what LoadInstances left: healthy, the
\*                  file was not found, or the instance failed otherwise;
\*   copied       - the instance file of root 1 is a copy of that of root 0;
\*   create_fails - the root whose instance->Create() returns an error;
\*   update       - UpdateHealthyInstances: not called, OK, or an error
\*                  (UPDATE_AND_ERROR_ON_FAILURE).
CreateInputs ==
  {in \in [health : [Roots -> {"healthy", "NotFound", "failed"}], copied : BOOLEAN,
           create_fails : Roots \cup {NoRoot}, update : {"none", "OK", "error"}] :
     /\ \A d \in Roots : /\ in.health[d] = "healthy" => d \in disk_files
                         /\ in.health[d] = "NotFound" => d \notin disk_files
     /\ in.copied => in.health[0] = "healthy" /\ in.health[1] = "healthy"
     /\ in.create_fails # NoRoot => in.health[in.create_fails] = "NotFound"
     /\ (\A d \in Roots : in.health[d] # "healthy") => in.update = "none"
     /\ (\E d, e \in Roots : in.health[d] = "healthy" /\ in.health[e] = "NotFound")
          => in.update # "none"}

\* The roots whose instance file was not found, which the call creates.
MissingRoots(in) == {d \in Roots : in.health[d] = "NotFound"}

\* instance->uuid() as the call reads it.
UuidOf(d, in) == IF in.copied /\ d = 1 THEN 0 ELSE d

CrLast(op, status) ==
  [op |-> op, status |-> status, before |-> [dirs |-> {}, files |-> {}],
   created_dirs |-> <<>>, created_files |-> <<>>, deleted |-> <<>>,
   stuck_file |-> NoRoot, stuck_dir |-> NoRoot]

CrInit ==
  /\ \E disk \in Disks : disk_dirs = disk.dirs /\ disk_files = disk.files
  /\ created_fs_dir_paths_ = {}
  /\ cr_last = CrLast("none", "OK")

\* The loop over the instances that creates the missing ones, from instance
\* i on.  instance->Create() makes the directory if it is missing and writes
\* the instance file; it cannot make a directory inside a missing one.
RECURSIVE CreateMissingFrom(_, _, _)
CreateMissingFrom(i, st, in) ==
  IF i \notin Roots \/ st.status # "OK" THEN st
  ELSE IF in.health[i] # "NotFound" THEN CreateMissingFrom(i + 1, st, in)
  ELSE IF in.create_fails = i \/ ~(Inside(i) \subseteq st.dirs)
    THEN [st EXCEPT !.status = "create_error"]
  ELSE CreateMissingFrom(i + 1,
         [st EXCEPT !.dirs = @ \cup {i},
                    !.files = @ \cup {i},
                    !.created_dirs = IF i \in st.dirs THEN @ ELSE Append(@, i),
                    !.created_files = Append(@, i)], in)

\* One entry of the record of deletions.
Deletion(what, id, ok) == [what |-> what, id |-> id, ok |-> ok]

\* The first loop of the cleanup: env_->DeleteFile on created_files, from
\* the k-th on; 'stuck' is the file the environment fails to delete.
RECURSIVE DeleteCreatedFiles(_, _, _)
DeleteCreatedFiles(k, st, stuck) ==
  IF k > Len(st.created_files) THEN st
  ELSE LET f == st.created_files[k]
           ok == f \in st.files /\ f # stuck
       IN DeleteCreatedFiles(k + 1,
            [st EXCEPT !.files = IF ok THEN @ \ {f} ELSE @,
                       !.deleted = Append(@, Deletion("file", f, ok))], stuck)

\* env_->DeleteDir: it fails on a directory that is not empty.
DeleteDir(d, st, stuck) ==
  LET ok == /\ d \in st.dirs /\ d \notin st.files
            /\ \A c \in st.dirs : d \notin Inside(c)
            /\ d # stuck
  IN [st EXCEPT !.dirs = IF ok THEN @ \ {d} ELSE @,
                !.deleted = Append(@, Deletion("dir", d, ok))]

\* A cleanup that deletes the directories in the order of their creation.
RECURSIVE DeleteCreatedDirsInOrder(_, _, _)
DeleteCreatedDirsInOrder(k, st, stuck) ==
  IF k = 0 THEN st
  ELSE DeleteCreatedDirsInOrder(k - 1,
         DeleteDir(st.created_dirs[Len(st.created_dirs) + 1 - k], st, stuck), stuck)

\* The second loop of the cleanup: env_->DeleteDir on created_dirs from the
\* k-th down to the first.
RECURSIVE DeleteCreatedDirs(_, _, _)
DeleteCreatedDirs(k, st, stuck) ==
  IF k = 0 THEN st
  ELSE DeleteCreatedDirs(k - 1, DeleteDir(st.created_dirs[k], st, stuck), stuck)

\* The status the call returns and what it did to the disk.
CreateAndUpdateResult(in, stuck_file, stuck_dir) ==
  LET start == [status |-> "OK", dirs |-> disk_dirs, files |-> disk_files,
                created_dirs |-> <<>>, created_files |-> <<>>, deleted |-> <<>>]
      all_uuids == {UuidOf(d, in) : d \in Roots}
  IN
  IF Cardinality(all_uuids) # NumRoots
    THEN [start EXCEPT !.status = "InvalidArgument"]
  ELSE LET made == CreateMissingFrom(0, start, in)
           st == IF made.status = "OK" /\ in.update = "error"
                   THEN [made EXCEPT !.status = "update_error"] ELSE made
       IN
       IF st.status = "OK" THEN st
       ELSE DeleteCreatedDirs(Len(st.created_dirs),
                              DeleteCreatedFiles(1, st, stuck_file), stuck_dir)

\* DirManager::CreateNewDirectoriesAndUpdateInstances, called once on a
\* DirManager by Create or by Open.
CreateNewDirectories(in, stuck_file, stuck_dir) ==
  /\ cr_last.op = "none"
  /\ \E r \in {CreateAndUpdateResult(in, stuck_file, stuck_dir)} :
     /\ disk_dirs' = r.dirs
     /\ disk_files' = r.files
     /\ created_fs_dir_paths_' =
          IF r.status = "OK"
            THEN created_fs_dir_paths_ \cup {r.created_dirs[k] : k \in 1..Len(r.created_dirs)}
            ELSE created_fs_dir_paths_
     /\ cr_last' = [op |-> "CreateNewDirectoriesAndUpdateInstances",
                    status |-> r.status,
                    before |-> [dirs |-> disk_dirs, files |-> disk_files],
                    created_dirs |-> r.created_dirs,
                    created_files |-> r.created_files,
                    deleted |-> r.deleted,
                    stuck_file |-> stuck_file, stuck_dir |-> stuck_dir]

CrAtRest ==
  /\ disk_dirs = {}
  /\ disk_files = {}
  /\ created_fs_dir_paths_ = {}
  /\ cr_last = CrLast("none", "OK")

----------------------------------------------------------------------------
\* SchemaBuilder (kudu/common/schema.cc).

sbVars == <<cols_, col_ids_, col_names_, num_key_columns_, next_id_, used_ids, sb_last>>

\* Bounds of the schema model.
MaxCols == 2       \* AddColumn is explored up to this many columns
MaxAdds == 3       \* and up to this many ids handed out

\* kFirstColumnId of a release build.
kFirstColumnId == 0

\* Column names; a std::string may be empty.
ColNames == {"", "a", "b"}

\* An optional that is not set.
Unset == "<unset>"

\* A ColumnSchema: its name, whether its physical type is BINARY, whether it
\* has a write default, and its encoding.
Column(name, binary, key) ==
  [name |-> name, binary |-> binary, key |-> key, write_default_ |-> FALSE,
   encoding |-> "AUTO_ENCODING"]

\* The schemas a builder is constructed from: none (SchemaBuilder()), a
\* schema without column ids, a schema with ids.  A Schema has unique
\* non-empty names and its key columns first.
InitialSchemas ==
  {[cols |-> <<>>, ids |-> <<>>, num_key_columns |-> 0],
   [cols |-> <<Column("a", FALSE, TRUE), Column("b", TRUE, FALSE)>>, ids |-> <<>>,
    num_key_columns |-> 1],
   [cols |-> <<Column("a", FALSE, TRUE)>>, ids |-> <<2>>, num_key_columns |-> 1]}

\* std::max_element over a non-empty sequence of ids.
MaxElement(ids) == CHOOSE m \in {ids[k] : k \in 1..Len(ids)} :
                     \A k \in 1..Len(ids) : ids[k] <= m

\* The members of the builder.
Builder == <<cols_, col_ids_, col_names_, num_key_columns_, next_id_>>

SbLast(op, status) == [op |-> op, status |-> status]

\* SchemaBuilder::Reset() and SchemaBuilder::Reset(const Schema&), as the
\* constructors call them.
SbInit ==
  \E schema \in InitialSchemas :
    LET ids == IF schema.ids = <<>>
                 THEN [i \in 1..Len(schema.cols) |-> kFirstColumnId + (i - 1)]
                 ELSE schema.ids
        next == IF ids = <<>> THEN kFirstColumnId ELSE MaxElement(ids) + 1
    IN
    /\ cols_ = schema.cols
    /\ col_ids_ = ids
    /\ col_names_ = {schema.cols[i].name : i \in 1..Len(schema.cols)}
    /\ num_key_columns_ = schema.num_key_columns
    /\ next_id_ = next
    /\ used_ids = {ids[i] : i \in 1..Len(ids)}
    /\ sb_last = SbLast("Reset", "OK")

\* vector::insert(begin() + pos, x)
InsertAt(seq, pos, x) == SubSeq(seq, 1, pos) \o <<x>> \o SubSeq(seq, pos + 1, Len(seq))

\* vector::erase(begin() + i), for the 1-based index k = i + 1
EraseAt(seq, k) == SubSeq(seq, 1, k - 1) \o SubSeq(seq, k + 1, Len(seq))

\* The index of the first column called 'name', or 0.
IndexOfName(name) ==
  IF \E k \in 1..Len(cols_) : cols_[k].name = name
    THEN CHOOSE k \in 1..Len(cols_) :
           /\ cols_[k].name = name
           /\ \A j \in 1..(k - 1) : cols_[j].name # name
    ELSE 0

\* SchemaBuilder::AddColumn
AddColumn(column, is_key) ==
  /\ Len(cols_) < MaxCols
  /\ next_id_ < kFirstColumnId + MaxAdds
  /\ sb_last' = SbLast("AddColumn",
                       IF column.name \in col_names_ THEN "AlreadyPresent" ELSE "OK")
  /\ IF column.name \in col_names_
       THEN UNCHANGED <<cols_, col_ids_, col_names_, num_key_columns_, next_id_, used_ids>>
       ELSE /\ col_names_' = col_names_ \cup {column.name}
            /\ cols_' = IF is_key
                          THEN InsertAt(cols_, num_key_columns_, [column EXCEPT !.key = TRUE])
                          ELSE Append(cols_, [column EXCEPT !.key = FALSE])
            /\ col_ids_' = IF is_key THEN InsertAt(col_ids_, num_key_columns_, next_id_)
                           ELSE Append(col_ids_, next_id_)
            /\ num_key_columns_' = IF is_key THEN num_key_columns_ + 1
                                   ELSE num_key_columns_
            /\ next_id_' = next_id_ + 1
            /\ used_ids' = used_ids \cup {next_id_}

\* SchemaBuilder::RemoveColumn
RemoveColumn(name) ==
  LET k == IndexOfName(name) IN
  /\ sb_last' = SbLast("RemoveColumn",
                       IF name \notin col_names_ THEN "NotFound"
                       ELSE IF k = 0 THEN "FATAL" ELSE "OK")
  /\ IF name \notin col_names_
       THEN UNCHANGED <<cols_, col_ids_, col_names_, num_key_columns_>>
       ELSE /\ col_names_' = col_names_ \ {name}
            /\ IF k = 0
                 THEN UNCHANGED <<cols_, col_ids_, num_key_columns_>>
                 ELSE /\ cols_' = EraseAt(cols_, k)
                      /\ col_ids_' = EraseAt(col_ids_, k)
                      /\ num_key_columns_' = IF k - 1 < num_key_columns_
                                               THEN num_key_columns_ - 1
                                               ELSE num_key_columns_
  /\ UNCHANGED <<next_id_, used_ids>>

\* SchemaBuilder::RenameColumn
RenameColumn(old_name, new_name) ==
  LET k == IndexOfName(old_name)
      status == IF new_name = "" THEN "InvalidArgument"
                ELSE IF new_name \in col_names_ THEN "AlreadyPresent"
                ELSE IF old_name \notin col_names_ THEN "NotFound"
                ELSE IF k = 0 THEN "FATAL" ELSE "OK"
  IN
  /\ sb_last' = SbLast("RenameColumn", status)
  /\ col_names_' = IF status \in {"OK", "FATAL"}
                     THEN (col_names_ \ {old_name}) \cup {new_name} ELSE col_names_
  /\ cols_' = IF status = "OK" THEN [cols_ EXCEPT ![k].name = new_name] ELSE cols_
  /\ UNCHANGED <<col_ids_, num_key_columns_, next_id_, used_ids>>

\* The deltas ApplyColumnSchemaDelta is handed: default_value is unset, too
\* short for a fixed-size type ("short"), or of the right size.
ColumnSchemaDeltas ==
  [name : ColNames, new_name : ColNames \cup {Unset},
   default_value : {Unset, "short", "sized"}, remove_default : BOOLEAN,
   encoding : {Unset, "PLAIN_ENCODING"}]

\* ColumnSchema::ApplyDelta: the status it returns.
ApplyDeltaStatus(col, col_delta) ==
  IF ~col.binary /\ col_delta.default_value = "short" THEN "InvalidArgument" ELSE "OK"

\* ColumnSchema::ApplyDelta: the column it leaves when it returns OK.
ApplyDelta(col, col_delta) ==
  [col EXCEPT
     !.name = IF col_delta.new_name # Unset THEN col_delta.new_name ELSE @,
     !.write_default_ = IF col_delta.remove_default THEN FALSE
                        ELSE IF col_delta.default_value # Unset THEN TRUE ELSE @,
     !.encoding = IF col_delta.encoding # Unset THEN col_delta.encoding ELSE @]

\* SchemaBuilder::ApplyColumnSchemaDelta
ApplyColumnSchemaDelta(col_delta) ==
  LET k == IndexOfName(col_delta.name)
      status == IF col_delta.new_name # Unset /\ col_delta.new_name \in col_names_
                  THEN "AlreadyPresent"
                ELSE IF col_delta.name \notin col_names_ THEN "NotFound"
                ELSE IF k = 0 THEN "FATAL"
                ELSE ApplyDeltaStatus(cols_[k], col_delta)
  IN
  /\ sb_last' = SbLast("ApplyColumnSchemaDelta", status)
  /\ cols_' = IF status = "OK" THEN [cols_ EXCEPT ![k] = ApplyDelta(@, col_delta)]
              ELSE cols_
  /\ col_names_' = IF status = "OK" /\ col_delta.new_name # Unset
                     THEN (col_names_ \ {col_delta.name}) \cup {col_delta.new_name}
                     ELSE col_names_
  /\ UNCHANGED <<col_ids_, num_key_columns_, next_id_, used_ids>>

SbAtRest ==
  /\ cols_ = <<>>
  /\ col_ids_ = <<>>
  /\ col_names_ = {}
  /\ num_key_columns_ = 0
  /\ next_id_ = kFirstColumnId
  /\ used_ids = {}
  /\ sb_last = SbLast("Reset", "OK")

----------------------------------------------------------------------------
\* SelectionVector (kudu/common/rowblock.cc).

svVars == <<bitmap_, n_rows_, sv_last>>

\* Bound of the selection vector model.
MaxSelRows == 4    \* rows of the selection vector

\* Bits of a byte.
BitsPerByte == 8

\* BitmapSize: the bytes that hold n bits.
BitmapSize(n) == (n + BitsPerByte - 1) \div BitsPerByte

\* The bitmaps of n_rows rows: the bits of the last byte beyond the rows are
\* zero (PadExtraBitsWithZeroes).
Bitmaps(n_rows) ==
  {b \in [1..(BitmapSize(n_rows) * BitsPerByte) -> BOOLEAN] :
     \A k \in (n_rows + 1)..(BitmapSize(n_rows) * BitsPerByte) : ~b[k]}

SvLast(op, max_rows, before) == [op |-> op, max_rows |-> max_rows, before |-> before]

\* SelectionVector::SelectionVector: at least one row; the bits of the rows
\* are not initialized.
SvInit ==
  /\ n_rows_ \in 1..MaxSelRows
  /\ bitmap_ \in Bitmaps(n_rows_)
  /\ sv_last = SvLast("SelectionVector", 0, bitmap_)

\* BitmapIterator::Next on a bitmap of n rows: the length of the run of equal
\* bits that starts at row 'pos' (rows are counted from 1 here), 0 at the
\* end.
RECURSIVE RunSize(_, _, _)
RunSize(bits, pos, n) ==
  IF pos > n THEN 0
  ELSE IF pos < n /\ bits[pos + 1] = bits[pos] THEN 1 + RunSize(bits, pos + 1, n)
  ELSE 1

\* An end index that counts the rows of every run against max_rows, selected
\* or not.
RECURSIVE EndIdxCountingAllRuns(_, _, _, _)
EndIdxCountingAllRuns(bits, pos, max_rows, end_idx) ==
  LET run_size == RunSize(bits, pos, n_rows_) IN
  IF run_size = 0 \/ max_rows = 0 THEN end_idx
  ELSE IF run_size >= max_rows THEN end_idx + max_rows
  ELSE EndIdxCountingAllRuns(bits, pos + run_size, max_rows - run_size,
                             end_idx + run_size)

\* The loop of SelectionVector::ClearToSelectAtMost: end_idx when the loop is
\* left, for an iterator at row 'pos'.
RECURSIVE EndIdx(_, _, _, _)
EndIdx(bits, pos, max_rows, end_idx) ==
  LET run_size == RunSize(bits, pos, n_rows_)
      selected == bits[pos]
  IN
  IF run_size = 0 \/ max_rows = 0 THEN end_idx
  ELSE IF selected /\ run_size >= max_rows THEN end_idx + max_rows
  ELSE EndIdx(bits, pos + run_size,
              IF selected THEN max_rows - run_size ELSE max_rows,
              end_idx + run_size)

\* BitmapChangeBits(bitmap, offset, num_bits, value)
BitmapChangeBits(bits, offset, num_bits, value) ==
  [k \in DOMAIN bits |->
     IF offset < k /\ k <= offset + num_bits THEN value ELSE bits[k]]

\* Bits::Count over the n_bytes_ bytes of the bitmap.
RECURSIVE BitsCount(_, _)
BitsCount(bits, k) ==
  IF k = 0 THEN 0 ELSE (IF bits[k] THEN 1 ELSE 0) + BitsCount(bits, k - 1)

\* SelectionVector::CountSelected
CountSelected(bits) == BitsCount(bits, Len(bits))

\* SelectionVector::ClearToSelectAtMost
ClearToSelectAtMost(max_rows) ==
  /\ sv_last' = SvLast("ClearToSelectAtMost", max_rows, bitmap_)
  /\ bitmap_' =
       IF max_rows < n_rows_
         THEN LET end_idx == EndIdx(bitmap_, 1, max_rows, 0) IN
              IF n_rows_ > end_idx
                THEN BitmapChangeBits(bitmap_, end_idx, n_rows_ - end_idx, FALSE)
                ELSE bitmap_
         ELSE bitmap_
  /\ UNCHANGED n_rows_

SvAtRest ==
  /\ n_rows_ = 1
  /\ bitmap_ = [k \in 1..BitsPerByte |-> FALSE]
  /\ sv_last = SvLast("SelectionVector", 0, bitmap_)

\* The parts added last, and their state at rest.
moreVars == <<decVars, warnVars, crVars, sbVars, svVars>>
MoreAtRest == DecAtRest /\ WarnAtRest /\ CrAtRest /\ SbAtRest /\ SvAtRest

\* For each of these parts, the variables of the others and their state at
\* rest.
decOthers == <<warnVars, crVars, sbVars, svVars>>
DecOthersAtRest == WarnAtRest /\ CrAtRest /\ SbAtRest /\ SvAtRest
warnOthers == <<decVars, crVars, sbVars, svVars>>
WarnOthersAtRest == DecAtRest /\ CrAtRest /\ SbAtRest /\ SvAtRest
crOthers == <<decVars, warnVars, sbVars, svVars>>
CrOthersAtRest == DecAtRest /\ WarnAtRest /\ SbAtRest /\ SvAtRest
sbOthers == <<decVars, warnVars, crVars, svVars>>
SbOthersAtRest == DecAtRest /\ WarnAtRest /\ CrAtRest /\ SvAtRest
svOthers == <<decVars, warnVars, crVars, sbVars>>
SvOthersAtRest == DecAtRest /\ WarnAtRest /\ CrAtRest /\ SbAtRest

fsVars == <<dirVars, updVars>>
extVars == <<respVars, mmVars, dictVars, moreVars>>

vars == <<peerVars, poolVars, dirVars, updVars, extVars>>

\* The parts that a specification leaves alone stay in one initial state.
PeerAtRest == PeerInit /\ proxy_ = TRUE /\ enable_tablet_copy = TRUE
PoolAtRest == PoolInit /\ tok_mode = [t \in Tokens |-> "SERIAL"]
DirAtRest ==
  DirInit /\ metrics_ = TRUE /\ opts_ = [mode |-> "rw", lock_dirs |-> TRUE]
UpdAtRest ==
  /\ UpdInit
  /\ update_instances = "UPDATE_AND_IGNORE_FAILURES"
  /\ instances_to_update = [d \in Dirs |-> "healthy"]

\* The parts added to the model after the first five specifications.
ExtAtRest == RespAtRest /\ MmAtRest /\ DictAtRest /\ MoreAtRest

\* The consensus peer.
Init == PeerInit /\ PoolAtRest /\ DirAtRest /\ UpdAtRest /\ ExtAtRest

Next ==
  \/ HeartbeatTick /\ UNCHANGED <<poolVars, fsVars, extVars>>
  \/ SignalRequest /\ UNCHANGED <<poolVars, fsVars, extVars>>
  \/ \E e \in BOOLEAN, accept \in BOOLEAN :
       SignalRequestSubmit(e, accept) /\ UNCHANGED <<poolVars, fsVars, extVars>>
  \/ \E e \in BOOLEAN : RunSendNextRequest(e) /\ UNCHANGED <<poolVars, fsVars, extVars>>
  \/ IssueRpc /\ UNCHANGED <<poolVars, fsVars, extVars>>
  \/ \E resp \in UpdateResponses, accept \in BOOLEAN :
       ProcessResponse(resp, accept) /\ UNCHANGED <<poolVars, fsVars, extVars>>
  \/ \E more \in BOOLEAN : DoProcessResponse(more) /\ UNCHANGED <<poolVars, fsVars, extVars>>
  \/ SendMoreImmediately /\ UNCHANGED <<poolVars, fsVars, extVars>>
  \/ \E resp \in CopyResponses :
       ProcessTabletCopyResponse(resp) /\ UNCHANGED <<poolVars, fsVars, extVars>>
  \/ CloseCheck /\ UNCHANGED <<poolVars, fsVars, extVars>>
  \/ CloseFinish /\ UNCHANGED <<poolVars, fsVars, extVars>>
  \/ DestroyPeer /\ UNCHANGED <<poolVars, fsVars, extVars>>

Spec == Init /\ [][Next]_vars

\* The thread pool.
PoolSpecInit == PoolInit /\ PeerAtRest /\ DirAtRest /\ UpdAtRest /\ ExtAtRest

PoolNext ==
  \/ \E t \in Tokens : Submit(t) /\ UNCHANGED <<peerVars, fsVars, extVars>>
  \/ Dispatch /\ UNCHANGED <<peerVars, fsVars, extVars>>
  \/ \E t \in Tokens, id \in 1..MaxSubmits : Finish(t, id) /\ UNCHANGED <<peerVars, fsVars, extVars>>
  \/ \E t \in Tokens : Close(t) /\ UNCHANGED <<peerVars, fsVars, extVars>>
  \/ \E t \in Tokens : Shutdown(t) /\ UNCHANGED <<peerVars, fsVars, extVars>>
  \/ \E t \in Tokens : ShutdownReturn(t) /\ UNCHANGED <<peerVars, fsVars, extVars>>
  \/ \E t \in Tokens : Wait(t) /\ UNCHANGED <<peerVars, fsVars, extVars>>
  \/ PoolShutdown /\ UNCHANGED <<peerVars, fsVars, extVars>>
  \/ PoolShutdownReturn /\ UNCHANGED <<peerVars, fsVars, extVars>>

PoolSpec == PoolSpecInit /\ [][PoolNext]_vars

\* The directory manager.
DirSpecInit == DirInit /\ PeerAtRest /\ PoolAtRest /\ UpdAtRest /\ ExtAtRest

DirNext ==
  \/ /\ dm_state = "new"      \* Open is called once, on a new DirManager
     /\ \E in \in OpenInputs : Open(in) /\ UNCHANGED <<peerVars, poolVars, updVars, extVars>>
  \/ \E idx \in Dirs : MarkDirFailed(idx) /\ UNCHANGED <<peerVars, poolVars, updVars, extVars>>

DirSpec == DirSpecInit /\ [][DirNext]_vars

----------------------------------------------------------------------------
\* Properties of the consensus peer (checked under Spec).

\* The RPCs of the peer that are outstanding: issued and not yet answered,
\* or decided under peer_lock_ and about to be issued.
OutstandingRpcs == rpcs.update + rpcs.copy + thr.issueU + thr.issueC

\* C1: a peer has at most one RPC (UpdateConsensus or StartTabletCopy)
\* outstanding at any time, under every interleaving of signals, heartbeats,
\* pool tasks, response callbacks and Close; a SendNextRequest sends only
\* when request_pending_ is false, and request_pending_ is already true when
\* the RPC is issued and stays true while it is outstanding.
C1_OneOutstandingRpc ==
  /\ OutstandingRpcs <= 1
  /\ OutstandingRpcs > 0 => request_pending_
  /\ ~check_failed

\* C1 witness: a SendNextRequest task has run while an UpdateConsensus RPC
\* was outstanding, and has sent nothing.
C1_Witness ==
  /\ peer_last.op = "SendNextRequest" /\ peer_last.out = "pending"
  /\ rpcs.update = 1
  /\ has_sent_first_request_

\* The states of the per-follower state machine.
Idle == ~closed_ /\ ~request_pending_
RequestPending == ~closed_ /\ request_pending_
Closed == closed_

\* C4: a peer is in at most one of Idle and RequestPending; Closed is
\* terminal: closed_ never goes back to false, and once the peer is closed
\* no SendNextRequest sets request_pending_ or gets to issue an RPC.
C4_ClosedTerminal ==
  [][/\ ~(Idle /\ RequestPending)
     /\ Closed => /\ Closed'
                  /\ request_pending_' => request_pending_
                  /\ thr'.issueU <= thr.issueU
                  /\ thr'.issueC <= thr.issueC
                  /\ has_sent_first_request_' = has_sent_first_request_]_vars

\* C4 witness: a SendNextRequest has run on a closed peer.
C4_Witness ==
  /\ closed_
  /\ peer_last.op = "SendNextRequest" /\ peer_last.out = "closed"

----------------------------------------------------------------------------
\* Properties of the thread pool (checked under PoolSpec).

\* C2: at most one task of a SERIAL token is executing at any time,
\* whatever the number of pool threads and of queued tasks.
C2_SerialOneAtATime ==
  \A t \in Tokens : tok_mode[t] = "SERIAL" => active_threads_(t) <= 1

\* C2 witness: every token is SERIAL and has a task executing, all at the
\* same time, while one of them has a further task queued.
C2_Witness ==
  /\ \A t \in Tokens : tok_mode[t] = "SERIAL" /\ active_threads_(t) = 1
  /\ \E t \in Tokens : entries_[t] # <<>>

\* C3: the tasks of a SERIAL token start, and complete, in the order in
\* which their Submit calls returned OK (task i is the i-th accepted one).
C3_SerialFifo ==
  \A t \in Tokens : tok_mode[t] = "SERIAL" =>
    /\ \A i \in 1..Len(started[t]) : started[t][i] = i
    /\ finished[t] = 1..Cardinality(finished[t])

\* C3 witness: a SERIAL token has run two tasks to completion while the
\* other token had a task running in between.
C3_Witness ==
  \E t \in Tokens :
    /\ tok_mode[t] = "SERIAL"
    /\ started[t] = <<1, 2>>
    /\ finished[t] = {1, 2}
    /\ \E u \in Tokens \ {t} : finished[u] # {}

ClosedOnly(t) == tok_hist[t] \in {"closed_idle", "closed_running"} /\ pool_status_ok

\* C5: after Close() - and no Shutdown() - a token accepts no submission and
\* runs every task accepted before: while it has queued or running tasks it
\* is GRACEFUL_QUIESCING and active, and once it is not active (so that
\* Wait() returns) it is QUIESCED, its queue is empty and every accepted task
\* has run exactly once.
C5_CloseDrains ==
  /\ [](\A t \in Tokens : ClosedOnly(t) =>
          /\ (entries_[t] # <<>> \/ active_threads_(t) > 0) =>
                tok_state[t] = "GRACEFUL_QUIESCING" /\ IsActive(t)
          /\ ~IsActive(t) =>
                /\ tok_state[t] = "QUIESCED"
                /\ entries_[t] = <<>>
                /\ finished[t] = 1..submitted[t]
                /\ Len(started[t]) = submitted[t]
          /\ \A i, j \in 1..Len(started[t]) : started[t][i] = started[t][j] => i = j)
  /\ [][\A t \in Tokens : ClosedOnly(t) => submitted'[t] = submitted[t]]_vars

\* C5 witness: Wait() has returned on a token that was closed while it had
\* tasks outstanding, and both tasks accepted before the Close have run.
C5_Witness ==
  \E t \in Tokens :
    /\ pool_last = PLast("Wait", t, "returned")
    /\ tok_hist[t] = "closed_running"
    /\ pool_status_ok
    /\ submitted[t] >= 2
    /\ finished[t] = 1..submitted[t]

\* C6: Shutdown() on a token discards the token's queued tasks (none of them
\* starts afterwards), waits only while a task of that very token is
\* running - it can return as soon as none is, whatever other tokens do -
\* and has returned only with the token QUIESCED, inactive and with an
\* empty queue.
C6_ShutdownDiscards ==
  /\ [](\A t \in Tokens : tok_hist[t] = "shutdown" =>
          /\ entries_[t] = <<>>
          /\ \A i \in 1..Len(queue_) : queue_[i] # t
          /\ (t \in blocked /\ active_threads_(t) = 0) => ENABLED ShutdownReturn(t)
          /\ t \notin blocked =>
                tok_state[t] = "QUIESCED" /\ ~IsActive(t) /\ active_threads_(t) = 0)
  /\ [][\A t \in Tokens : tok_hist[t] = "shutdown" => started'[t] = started[t]]_vars

\* C6 witness: Shutdown() has returned on a token one of whose two accepted
\* tasks never started, while a task of the other token is still running.
C6_Witness ==
  \E t \in Tokens :
    /\ pool_last = PLast("Shutdown", t, "returned")
    /\ tok_hist[t] = "shutdown"
    /\ submitted[t] = 2
    /\ Len(started[t]) = 1
    /\ \E u \in Tokens \ {t} : active_threads_(u) > 0

\* C7: a Submit on a token after that token's Close() or Shutdown(), or
\* after the pool's Shutdown(), returns ServiceUnavailable and queues and
\* runs nothing; a Submit on any other token of a pool that is not shut down
\* is accepted.  Only accepted tasks ever start.
C7_SubmitAfterShutdown ==
  /\ [][pool_last'.op = "Submit" =>
          LET t == pool_last'.tok IN
          IF tok_hist[t] # "none" \/ ~pool_status_ok
            THEN /\ pool_last'.status = "ServiceUnavailable"
                 /\ UNCHANGED <<entries_, queue_, submitted, running, started, tok_state>>
            ELSE /\ pool_last'.status = "OK"
                 /\ submitted'[t] = submitted[t] + 1]_vars
  /\ [](\A t \in Tokens : \A i \in 1..Len(started[t]) : started[t][i] \in 1..submitted[t])

\* C7 witness: a Submit has been refused on a token that was closed or shut
\* down, in a pool that is not shut down and whose other token is at work.
C7_Witness ==
  \E t \in Tokens :
    /\ pool_last = PLast("Submit", t, "ServiceUnavailable")
    /\ tok_hist[t] # "none"
    /\ pool_status_ok
    /\ \E u \in Tokens \ {t} : tok_hist[u] = "none" /\ IsActive(u)

\* The moves of a token's state.
AllowedMoves ==
  {<<"IDLE", "RUNNING">>, <<"RUNNING", "IDLE">>,
   <<"IDLE", "GRACEFUL_QUIESCING">>, <<"RUNNING", "GRACEFUL_QUIESCING">>,
   <<"GRACEFUL_QUIESCING", "QUIESCED">>,
   <<"IDLE", "QUIESCED">>, <<"RUNNING", "QUIESCED">>}

TokenWork == <<tok_state, entries_, queue_, running, started, finished, submitted>>

\* C8: a token's state moves only along Idle -> Running -> Idle,
\* Idle/Running -> GracefulQuiescing -> Quiesced, or directly to Quiesced;
\* Quiesced is terminal; a Close() on a token that was closed or shut down,
\* and a Shutdown() on a token that was shut down or is Quiesced, change
\* neither the state nor the tasks queued, running or run.
C8_TokenStateMoves ==
  [][/\ \A t \in Tokens :
          tok_state'[t] # tok_state[t] => <<tok_state[t], tok_state'[t]>> \in AllowedMoves
     /\ (pool_last'.op = "Close" /\ tok_hist[pool_last'.tok] # "none") =>
          UNCHANGED TokenWork
     /\ (/\ pool_last'.op = "Shutdown"
         /\ \/ tok_hist[pool_last'.tok] = "shutdown"
            \/ tok_state[pool_last'.tok] = "QUIESCED") =>
          UNCHANGED TokenWork]_vars

\* C8 witness: Close() has been called on a token that was shut down after
\* it had started a task, and the token is Quiesced.
C8_Witness ==
  \E t \in Tokens :
    /\ pool_last = PLast("Close", t, "returned")
    /\ tok_hist[t] = "shutdown"
    /\ tok_state[t] = "QUIESCED"
    /\ Len(started[t]) >= 1

----------------------------------------------------------------------------
\* Properties of the directory manager (checked under DirSpec).

\* C9: MarkDirFailed on a directory that is already in the failed set returns
\* OK and changes neither the failed set nor the dirs_failed metric; calling
\* it a second time for the same directory changes nothing any more.
C9_MarkDirFailedIdempotent ==
  /\ [][(dir_last'.op = "MarkDirFailed" /\ dir_last'.idx \in failed_dirs_) =>
          /\ dir_last'.status = "OK"
          /\ failed_dirs_' = failed_dirs_
          /\ dirs_failed' = dirs_failed]_vars
  /\ [](dm_state = "open" =>
          \A idx \in Dirs :
            LET r1 == MarkDirFailedResult(failed_dirs_, dirs_failed, idx)
                r2 == MarkDirFailedResult(r1.failed, r1.metric, idx)
            IN r2.status = "OK" /\ r2.failed = r1.failed /\ r2.metric = r1.metric)

\* C9 witness: MarkDirFailed has been called for a directory that was in the
\* failed set already, next to a healthy one.
C9_Witness ==
  /\ dir_last.op = "MarkDirFailed"
  /\ dir_last.was_failed
  /\ dir_last.status = "OK"
  /\ failed_dirs_ # Dirs
  /\ dirs_failed > 0

\* C10 as claimed: MarkDirFailed never completes the failed set - when the
\* failed set would cover every directory it returns IOError and leaves the
\* failed set as it was.
C10_FailedSetStaysStrict ==
  [][dir_last'.op = "MarkDirFailed" =>
       /\ failed_dirs_ # Dirs => failed_dirs_' # Dirs
       /\ dir_last'.status = "IOError" => failed_dirs_' = failed_dirs_]_vars

\* C10 amended: MarkDirFailed always adds the directory to the failed set; it
\* returns IOError exactly when this insertion makes the failed set cover
\* every directory, and then skips the dirs_failed metric; a call that returns
\* OK never completes the failed set.
C10_AllFailedIsError ==
  [][dir_last'.op = "MarkDirFailed" =>
       LET idx == dir_last'.idx IN
       /\ failed_dirs_' = failed_dirs_ \cup {idx}
       /\ dir_last'.status = "IOError" <=> (idx \notin failed_dirs_ /\ failed_dirs_' = Dirs)
       /\ dir_last'.status = "IOError" => dirs_failed' = dirs_failed
       /\ (dir_last'.status = "OK" /\ failed_dirs_ # Dirs) => failed_dirs_' # Dirs]_vars

\* C10 witness: MarkDirFailed has returned IOError and the failed set covers
\* every directory.
C10_Witness ==
  /\ dm_state = "open"
  /\ dir_last.op = "MarkDirFailed"
  /\ dir_last.status = "IOError"
  /\ failed_dirs_ = Dirs

\* The directories of a DirManager opened read-write on healthy directories
\* with free space, at time 0.
SpaceInit ==
  /\ PeerAtRest /\ PoolAtRest /\ UpdAtRest /\ ExtAtRest
  /\ dm_state = "open"
  /\ metrics_ \in BOOLEAN
  /\ opts_ = [mode |-> "rw", lock_dirs |-> TRUE]
  /\ failed_dirs_ = {}
  /\ dirs_failed = 0
  /\ is_full_ = [d \in Dirs |-> FALSE]
  /\ dirs_full = 0
  /\ available_bytes_ = [d \in Dirs |-> PolledBytes("ok")]
  /\ last_space_check_ = [d \in Dirs |-> 0]
  /\ now = 0
  /\ instances_ = [d \in Dirs |-> "healthy"]
  /\ lock_attempted = Dirs
  /\ tmp_deleted = Dirs
  /\ uuid_by_idx_ = {<<d, d>> : d \in Dirs}
  /\ idx_by_uuid_ = {<<d, d>> : d \in Dirs}
  /\ dir_last = DLast("Open", 0, "OK", FALSE)

SpaceNext ==
  \/ \E d \in SpaceDirs, mode \in {"ALWAYS", "EXPIRED_ONLY"}, poll \in Polls :
       RefreshAvailableSpace(d, mode, poll) /\ UNCHANGED <<peerVars, poolVars, updVars, extVars>>
  \/ Tick /\ UNCHANGED <<peerVars, poolVars, updVars, extVars>>

SpaceSpec == SpaceInit /\ [][SpaceNext]_vars

\* The update of the instance files.
UpdateSpecInit == UpdInit /\ PeerAtRest /\ PoolAtRest /\ DirAtRest /\ ExtAtRest

UpdateNext ==
  \/ /\ upd_last.status = "none"    \* one call is followed
     /\ \E in \in UpdateInputs :
          UpdateHealthyInstances(in) /\ UNCHANGED <<peerVars, poolVars, dirVars, extVars>>

UpdateSpec == UpdateSpecInit /\ [][UpdateNext]_vars

\* The uuid <-> index maps are mutually inverse bijections over the
\* directories.
MapsInverse ==
  /\ Keys(uuid_by_idx_) = Dirs
  /\ \A p, q \in uuid_by_idx_ : p[1] = q[1] => p = q
  /\ \A p, q \in idx_by_uuid_ : p[1] = q[1] => p = q
  /\ \A p \in uuid_by_idx_ : <<p[2], p[1]>> \in idx_by_uuid_
  /\ \A p \in idx_by_uuid_ : <<p[2], p[1]>> \in uuid_by_idx_

\* C11 as claimed: in an open DirManager a directory is in the failed set
\* exactly when its instance is not healthy.
C11_FailedIffUnhealthy ==
  dm_state = "open" => failed_dirs_ = {d \in Dirs : instances_[d] # "healthy"}

\* C11 amended: in an open DirManager, after Open and any MarkDirFailed
\* calls, the uuid <-> index maps are mutually inverse bijections over the
\* directories and every directory whose instance is not healthy is in the
\* failed set (the converse does not hold: MarkDirFailed leaves the instance
\* healthy).
C11_MapsAndFailedSet ==
  dm_state = "open" =>
    /\ MapsInverse
    /\ \A d \in Dirs : instances_[d] # "healthy" => d \in failed_dirs_

\* C11 witness: after a MarkDirFailed the failed set holds a directory whose
\* instance is healthy next to one whose instance is not.
C11_Witness ==
  /\ dm_state = "open"
  /\ dir_last.op = "MarkDirFailed"
  /\ \E d \in failed_dirs_ : instances_[d] = "healthy"
  /\ \E d \in failed_dirs_ : instances_[d] = "failed"
  /\ MapsInverse

\* C12 as claimed: Open succeeds whenever a directory has a healthy instance.
C12_OpenSucceedsIfHealthy ==
  (dir_last.op = "Open" /\ \E d \in Dirs : instances_[d] = "healthy")
    => dir_last.status = "OK"

\* The answers in which nothing goes wrong but that some instances, not all,
\* cannot be loaded.
PartialLoad(in) ==
  /\ in.update_ok
  /\ opts_.mode = "rw_update" =>
       in.first \in {FirstLoadAnswer("healthy"), FirstLoadAnswer("partial")}
  /\ \E d \in Dirs : in.ans[d].load = "healthy"
  /\ \A d \in Dirs :
       /\ in.ans[d].load # "error"
       /\ in.ans[d].uuid = "own"
       /\ in.ans[d].lock = "ok"
       /\ in.ans[d].fs_check = "ok"
       /\ in.ans[d].refresh \in {"ok", "ENOSPC"}

\* C12 amended: an instance that cannot be loaded does not by itself fail
\* Open: when nothing else goes wrong and some instance is healthy, Open
\* returns OK with exactly the directories of the unloadable instances in the
\* failed set.  Whenever Open returns OK, the failed set holds the
\* directories whose instance is not healthy and those whose first space
\* refresh hit a disk failure, and no others.  Open reports 'no healthy
\* directories' only when no instance is healthy.
C12_OpenToleratesUnhealthy ==
  /\ dm_state = "new" =>
       \A in \in OpenInputs : PartialLoad(in) =>
         \A r \in {OpenResult(in)} :
           /\ r.status = "OK"
           /\ r.failed = {d \in Dirs : in.ans[d].load = "unhealthy"}
  /\ (dir_last.op = "Open" /\ dir_last.status = "OK") =>
       \A d \in Dirs :
         d \in failed_dirs_ <=>
           (instances_[d] # "healthy" \/ last_space_check_[d] = Uninitialized)
  /\ (dir_last.op = "Open" /\ dir_last.status \in {"NotFound", "IOError_no_healthy"}) =>
       \A d \in Dirs : instances_[d] # "healthy"

\* C12 witness: Open has returned OK with a directory whose instance could
\* not be loaded in the failed set and a healthy directory outside it.
C12_Witness ==
  /\ dir_last = DLast("Open", 0, "OK", FALSE)
  /\ \E d \in failed_dirs_ : instances_[d] = "failed"
  /\ \E d \in Dirs \ failed_dirs_ : instances_[d] = "healthy"

\* The answers 'in' with every refused lock replaced by a lock that is taken.
Unrefused(in) ==
  [in EXCEPT !.ans = [d \in Dirs |-> [@[d] EXCEPT !.lock = IF @ = "busy" THEN "ok" ELSE @]],
             !.first = [d \in Dirs |-> [@[d] EXCEPT !.lock = IF @ = "busy" THEN "ok" ELSE @]]]

\* C16: with locking enabled in a read-write open, a refused lock makes Open
\* fail, and no temporary file has been deleted by an Open that fails to
\* take a lock; in a read-only open a refused lock changes nothing in what
\* Open does but that the lock is not held; with locking disabled Lock() is
\* never called.
C16_LockFollowsOpenMode ==
  /\ dm_state = "new" =>
       \A in \in OpenInputs :
         (opts_.lock_dirs /\ \E d \in Dirs : "busy" \in {in.first[d].lock, in.ans[d].lock})
           => \A r \in {OpenResult(in)} :
                IF opts_.mode = "ro"
                  THEN r = OpenResult(Unrefused(in))
                  ELSE r.status # "OK" /\ r.tmp = {}
  /\ (dir_last.op = "Open" /\ dir_last.status = "lock_error") =>
       /\ opts_.lock_dirs /\ opts_.mode # "ro"
       /\ dm_state = "open_failed"
       /\ tmp_deleted = {}
  /\ ~opts_.lock_dirs => lock_attempted = {}

\* C16 witness: a read-write Open has failed on a refused lock after it had
\* locked another instance, and has deleted no temporary file.
C16_Witness ==
  /\ dir_last = DLast("Open", 0, "lock_error", FALSE)
  /\ opts_.mode # "ro"
  /\ \E d \in lock_attempted : instances_[d] = "healthy"
  /\ tmp_deleted = {}

\* Whether the cached space information of directory d is older than the
\* cache time.
Expired(d) == now >= last_space_check_[d] + available_space_cache_secs

\* What one RefreshAvailableSpace(mode) step on directory d does when the
\* poll, if made, answers 'poll'.
RefreshStepOk(d, mode, poll) ==
  LET polls == mode = "ALWAYS" \/ Expired(d)
      same == /\ is_full_'[d] = is_full_[d]
              /\ available_bytes_'[d] = available_bytes_[d]
              /\ last_space_check_'[d] = last_space_check_[d]
              /\ dirs_full' = dirs_full
  IN
  /\ failed_dirs_' = failed_dirs_
  /\ \A e \in Dirs \ {d} : /\ is_full_'[e] = is_full_[e]
                           /\ available_bytes_'[e] = available_bytes_[e]
                           /\ last_space_check_'[e] = last_space_check_[e]
  /\ dir_last'.polled = polls
  /\ ~polls => dir_last'.status = "OK" /\ same
  /\ (polls /\ poll.status = "ENOSPC") =>
       /\ dir_last'.status = "OK"
       /\ is_full_'[d] = TRUE
       /\ last_space_check_'[d] = now
  /\ (polls /\ poll.status = "ok") =>
       /\ dir_last'.status = "OK"
       /\ is_full_'[d] = FALSE
       /\ available_bytes_'[d] = poll.bytes
       /\ last_space_check_'[d] = now
  /\ (polls /\ poll.status \notin {"ok", "ENOSPC"}) =>
       dir_last'.status = poll.status /\ same

\* C15: RefreshAvailableSpace treats ENOSPC as 'full' (is_full_ true, OK
\* returned, the directory not failed); a successful poll clears is_full_ and
\* stores the available bytes and the time of the check; any other error is
\* returned with the Dir unchanged; EXPIRED_ONLY within the cache time polls
\* nothing and changes nothing.
C15_RefreshAvailableSpace ==
  [][\A d \in SpaceDirs, mode \in {"ALWAYS", "EXPIRED_ONLY"}, poll \in Polls :
       RefreshAvailableSpace(d, mode, poll) => RefreshStepOk(d, mode, poll)]_vars

\* C15 witness: a directory found full by an earlier poll has been refreshed
\* with EXPIRED_ONLY within the cache time, without a poll.
C15_Witness ==
  /\ dir_last.op = "RefreshAvailableSpace"
  /\ dir_last.polled = FALSE
  /\ is_full_[dir_last.idx] = TRUE
  /\ now > last_space_check_[dir_last.idx]
  /\ last_space_check_[dir_last.idx] > 0

\* C13 as claimed: when UPDATE_AND_ERROR_ON_FAILURE returns an error, every
\* instance file has its content of before the call.
C13_ErrorLeavesFilesIntact ==
  (update_instances = "UPDATE_AND_ERROR_ON_FAILURE" /\ upd_last.status = "error")
    => \A d \in Dirs : instance_file[d] = "old"

\* C13 amended: with UPDATE_AND_ERROR_ON_FAILURE the call returns an error
\* exactly when a copy or a rewrite failed, and then every instance file has
\* its content of before the call except the rewritten (or torn) files whose
\* copy could not be renamed back: those keep what the rewrite left and their
\* copy stays on disk.  A call that returns OK has rewritten every passed
\* instance file.
C13_ErrorRestoresWhatItCan ==
  (update_instances = "UPDATE_AND_ERROR_ON_FAILURE" /\ upd_last.status # "none") =>
    /\ upd_last.status = "error" <=> upd_last.copy_failed \cup upd_last.write_failed # {}
    /\ upd_last.status = "error" =>
         \A d \in Dirs :
           /\ d \notin upd_last.cleanup_failed => instance_file[d] = "old"
           /\ (d \in upd_last.cleanup_failed /\ d \in upd_last.rewritten)
                => instance_file[d] = "new" /\ copy_file[d] = "copy"
           /\ (d \in upd_last.cleanup_failed /\ d \in upd_last.write_failed)
                => instance_file[d] \in {"old", "torn"} /\ copy_file[d] = "copy"
    /\ upd_last.status = "OK" =>
         \A d \in Dirs : instances_to_update[d] = "healthy" => instance_file[d] = "new"

\* C13 witness: a rewrite failed leaving a torn file, another instance had
\* been rewritten, the call returned the error and both files have their old
\* content again.
C13_Witness ==
  /\ update_instances = "UPDATE_AND_ERROR_ON_FAILURE"
  /\ upd_last.status = "error"
  /\ upd_last.rewritten # {}
  /\ upd_last.write_failed # {}
  /\ upd_last.cleanup_failed = {}
  /\ \A d \in Dirs : instance_file[d] = "old" /\ copy_file[d] = "none"

\* C14 as claimed: with UPDATE_AND_IGNORE_FAILURES the call returns OK and a
\* file whose rewrite failed is restored from its copy.
C14_FailedRewriteRestored ==
  (update_instances = "UPDATE_AND_IGNORE_FAILURES" /\ upd_last.status # "none") =>
    /\ upd_last.status = "OK"
    /\ \A d \in upd_last.write_failed : instance_file[d] = "old"

----------------------------------------------------------------------------
\* More properties of the consensus peer (checked under Spec).

\* The outcomes of a SendNextRequest that returns before it asks the queue.
EarlyReturns == {"closed", "pending", "skip_failed"}

\* C17: after a failed attempt, once the first request has been sent, a
\* SendNextRequest(false) skips: its outcome does not depend on what the queue
\* or the proxy would answer, it issues no RPC and it leaves request_pending_,
\* failed_attempts_, has_sent_first_request_ and the request unchanged.
C17_SkipAfterFailure ==
  [][(/\ failed_attempts_ > 0 /\ has_sent_first_request_
      /\ raft_tasks'["sendF"] < raft_tasks["sendF"])    \* a SendNextRequest(false) runs
       => /\ RunSendNextRequest(FALSE)
          /\ \A in \in SendInputs :
               /\ SendOutcome(FALSE, in) \in EarlyReturns
               /\ Idle => SendOutcome(FALSE, in) = "skip_failed"
          /\ peer_last'.out \in EarlyReturns
          /\ thr' = thr
          /\ UNCHANGED <<request_pending_, failed_attempts_, has_sent_first_request_,
                         proxy_, rpcs, request_>>]_vars

\* C17 witness: a SendNextRequest(false) has skipped on an idle peer whose
\* last attempt failed.
C17_Witness ==
  /\ peer_last = Sent("skip_failed", "sendF", FALSE)
  /\ failed_attempts_ > 0
  /\ has_sent_first_request_
  /\ Idle

\* Whether the queue and the proxy let a status-only request through.
CanSend(in) == in.rfp_ok /\ CreateProxyIfNeeded(in) /\ ~in.needs_tablet_copy

\* C18 as claimed: the SendNextRequest(true) of a heartbeat that finds the
\* peer idle after a failed attempt issues an UpdateConsensus RPC without ops.
C18_HeartbeatSendsEmptyRpc ==
  [][(failed_attempts_ > 0 /\ Idle /\ RunSendNextRequest(TRUE))
       => (peer_last'.out = "update" /\ ~peer_last'.ops)]_vars

\* C18 amended: after a failed attempt the SendNextRequest(true) of a
\* heartbeat that finds the peer idle is not skipped: it asks the queue, and
\* it issues an UpdateConsensus RPC exactly when RequestForPeer succeeds, a
\* proxy is available and no tablet copy is needed, whether or not the
\* request has ops; the RPC carries the ops the queue supplied.
C18_HeartbeatNotSkipped ==
  [][(failed_attempts_ > 0 /\ Idle) =>
       \A in \in SendInputs :
         /\ SendOutcome(TRUE, in) # "skip_failed"
         /\ SendOutcome(TRUE, in) = "update" <=> CanSend(in)
         /\ (/\ raft_tasks' = [raft_tasks EXCEPT !["sendT"] = @ - 1]
             /\ SendNextRequest(TRUE, in, thr, "sendT")
             /\ CanSend(in))
              => /\ request_pending_'
                 /\ thr'.issueU = thr.issueU + 1
                 /\ peer_last'.ops = in.req_has_ops]_vars

\* C18 witness: after a failed attempt a heartbeat has sent a request that
\* has ops.
C18_Witness ==
  /\ peer_last = [Sent("update", "sendT", TRUE) EXCEPT !.snooze = TRUE]
  /\ failed_attempts_ > 0
  /\ thr.issueU = 1

\* The request with its immutable fields unset, and set.
RequestUnset == [tablet_id |-> "", caller_uuid |-> "", dest_uuid |-> "", sets |-> 0]
RequestSet ==
  [tablet_id |-> "tablet_id_", caller_uuid |-> "leader_uuid_",
   dest_uuid |-> "permanent_uuid", sets |-> 1]

\* The immutable fields are unset until the first UpdateConsensus request is
\* sent, and an UpdateConsensus RPC only goes out with them set.
ImmutableFieldsOk ==
  /\ request_ = IF has_sent_first_request_ THEN RequestSet ELSE RequestUnset
  /\ thr.issueU + rpcs.update > 0 => request_ = RequestSet

\* C19: every UpdateConsensus RPC of the peer, the first included, carries
\* the tablet id, the caller uuid and the destination uuid; they are written
\* exactly once, by the SendNextRequest that sends the first request, and
\* never change afterwards.
C19_ImmutableFieldsSetOnce ==
  [][/\ ImmutableFieldsOk
     /\ ImmutableFieldsOk'
     /\ request_ = RequestSet => request_' = request_
     /\ request_' # request_ =>
          /\ ~has_sent_first_request_ /\ has_sent_first_request_'
          /\ peer_last'.op = "SendNextRequest" /\ peer_last'.out = "update"]_vars

\* C19 witness: a request that is not the first one has been sent, with the
\* fields written once (with tablet copy enabled an attempt only fails in a
\* response to an earlier request).
C19_Witness ==
  /\ peer_last.op = "SendNextRequest" /\ peer_last.out = "update"
  /\ enable_tablet_copy
  /\ failed_attempts_ > 0
  /\ request_ = RequestSet

\* C20 as claimed: when a successful response has ended the request,
\* failed_attempts_ is 0.
C20_SuccessResets ==
  [][(rpcs'.update < rpcs.update /\ RequestPending /\ ~request_pending_') =>
       \A accept \in BOOLEAN :
         ProcessResponse("SUCCESS", accept) => failed_attempts_' = 0]_vars

\* C20 amended: every failed response processed by an open peer increments
\* failed_attempts_ by exactly one; failed_attempts_ never grows by more than
\* one in a step and only decreases in DoProcessResponse, which sets it to 0;
\* DoProcessResponse runs for a successful response only if the pool token
\* accepts the task, otherwise the request ends with failed_attempts_
\* unchanged.  When ResponseFromPeer asks for more, the same thread runs
\* SendNextRequest(true) without a new signal or task.
C20_FailedAttempts ==
  [][/\ (rpcs'.update < rpcs.update /\ RequestPending) =>     \* ProcessResponse runs
          /\ \A resp \in UpdateResponses \ {"SUCCESS"}, accept \in BOOLEAN :
               ProcessResponse(resp, accept)
                 => failed_attempts_' = failed_attempts_ + 1 /\ ~request_pending_'
          /\ \A accept \in BOOLEAN :
               ProcessResponse("SUCCESS", accept)
                 => /\ failed_attempts_' = failed_attempts_
                    /\ IF RaftSubmitOk(accept)
                         THEN /\ request_pending_'
                              /\ raft_tasks'["doproc"] = raft_tasks["doproc"] + 1
                         ELSE ~request_pending_'
     /\ failed_attempts_' > failed_attempts_ =>
          /\ failed_attempts_' = failed_attempts_ + 1
          /\ peer_last'.op = "ProcessResponse" \/ peer_last'.out = "copy_disabled"
     /\ failed_attempts_' < failed_attempts_ =>
          failed_attempts_' = 0 /\ peer_last'.op = "DoProcessResponse"
     /\ (raft_tasks'["doproc"] < raft_tasks["doproc"] /\ request_pending_) =>
          \A more \in BOOLEAN :                                \* DoProcessResponse runs
            DoProcessResponse(more)
              => /\ failed_attempts_' = 0
                 /\ ~request_pending_'
                 /\ thr'.resend = thr.resend + (IF more THEN 1 ELSE 0)
     /\ thr'.resend < thr.resend =>                            \* its SendNextRequest(true)
          /\ SendMoreImmediately
          /\ raft_tasks' = raft_tasks
          /\ peer_last'.op = "SendNextRequest" /\ peer_last'.caller = "resend"]_vars

\* C20 witness: DoProcessResponse has sent the next request itself, with no
\* signal and no task left, and failed_attempts_ is 0.
C20_Witness ==
  /\ peer_last.op = "SendNextRequest" /\ peer_last.caller = "resend"
  /\ peer_last.out = "update"
  /\ failed_attempts_ = 0
  /\ TotalTasks = 0
  /\ thr.sigT + thr.sigF = 0

----------------------------------------------------------------------------
\* The classification of a completed UpdateConsensus RPC.
RespSpecInit ==
  RespInit /\ PoolAtRest /\ DirAtRest /\ UpdAtRest /\ MmAtRest /\ DictAtRest
    /\ MoreAtRest

RespNext ==
  \/ \E accept \in BOOLEAN :
       RunProcessResponse(accept)
         /\ UNCHANGED <<poolVars, fsVars, mmVars, dictVars, moreVars>>

RespSpec == RespSpecInit /\ [][RespNext]_vars

\* The completed RPC is one of the failures ProcessResponse reports.
FailedResponse ==
  \/ controller_ # "OK"
  \/ response_.status_error = "CANNOT_PREPARE"
  \/ response_.error # "none"

\* The PeerStatus of a failed response: a controller error comes first,
\* then CANNOT_PREPARE, then the tablet server error.
ExpectedPeerStatus ==
  IF controller_ = "REMOTE_ERROR" THEN "REMOTE_ERROR"
  ELSE IF controller_ # "OK" THEN "RPC_LAYER_ERROR"
  ELSE IF response_.status_error = "CANNOT_PREPARE" THEN "CANNOT_PREPARE"
  ELSE IF response_.error \in {"WRONG_SERVER_UUID", "TABLET_FAILED"} THEN "TABLET_FAILED"
  ELSE IF response_.error = "TABLET_NOT_FOUND" THEN "TABLET_NOT_FOUND"
  ELSE "REMOTE_ERROR"

\* C21: on a peer that is not closed, ProcessResponse reports exactly one
\* PeerStatus for a failed response, the one the precedence controller
\* error, CANNOT_PREPARE, tablet server error gives; it clears
\* request_pending_ and adds one to failed_attempts_.  A response that is
\* not a failure is not reported.
C21_ProcessResponseStatus ==
  [][(rpcs'.update < rpcs.update /\ ~closed_)
       => IF FailedResponse
            THEN /\ reported' = Append(reported, ExpectedPeerStatus)
                 /\ ~request_pending_'
                 /\ failed_attempts_' = failed_attempts_ + 1
            ELSE reported' = reported]_vars

\* A transport error has been reported for a response that also carried
\* a tablet server error.
C21_Witness ==
  /\ controller_ = "RPC_ERROR"
  /\ response_.error = "TABLET_FAILED"
  /\ reported = <<"RPC_LAYER_ERROR">>
  /\ failed_attempts_ = MaxFailed
  /\ ~request_pending_

----------------------------------------------------------------------------
\* The last step was a ProcessResponse that reported a failure.
FailureProcessed == peer_last.op = "ProcessResponse" /\ peer_last.out \in PeerStatuses

\* The last step was a SendNextRequest that goes on to send an RPC.
SentRpc == peer_last.op = "SendNextRequest" /\ peer_last.out \in {"update", "copy"}

\* C22 as stated: once a failed response has been processed, no RPC is
\* sent before SignalRequest is called again.  Here: the step that follows
\* the processing of a failed response never sends one.
C22_NextRpcNeedsLaterSignal ==
  [][FailureProcessed => ~SentRpc']_vars

\* C22: processing a failed response neither sends an RPC nor schedules
\* anything: the task queue and the threads of the peer are left as they
\* were.  An RPC is only ever prepared by a SendNextRequest that a queued
\* SignalRequest task or DoProcessResponse runs, and such a task is only
\* queued by the Submit of a SignalRequest that passed its tests; that
\* SignalRequest may have been called before the failure was processed.
C22_NoSelfRetry ==
  [][/\ (rpcs'.update < rpcs.update /\ peer_last'.out \in PeerStatuses)
          => /\ raft_tasks' = raft_tasks
             /\ thr' = thr
             /\ rpcs'.copy = rpcs.copy /\ rpcs'.update = rpcs.update - 1
     /\ (thr'.issueU + thr'.issueC > thr.issueU + thr.issueC)
          => /\ SentRpc'
             /\ \/ /\ peer_last'.caller \in {"sendT", "sendF"}
                   /\ raft_tasks'[peer_last'.caller] = raft_tasks[peer_last'.caller] - 1
                \/ /\ peer_last'.caller = "resend"
                   /\ thr'.resend = thr.resend - 1
     /\ (rpcs'.update + rpcs'.copy > rpcs.update + rpcs.copy)
          => thr'.issueU + thr'.issueC < thr.issueU + thr.issueC
     /\ (raft_tasks'["sendT"] + raft_tasks'["sendF"] >
           raft_tasks["sendT"] + raft_tasks["sendF"])
          => /\ peer_last' = Last("Submit", "ok")
             /\ thr'.sigT + thr'.sigF < thr.sigT + thr.sigF
     /\ thr'.resend > thr.resend
          => peer_last' = Last("DoProcessResponse", "send_more")]_vars

\* After a failed response the heartbeat's task has sent the next request.
C22_Witness ==
  /\ peer_last = Sent("update", "sendT", FALSE)
  /\ failed_attempts_ > 0
  /\ thr.issueU = 1
  /\ thr.sigT + thr.sigF = 0

----------------------------------------------------------------------------
\* C23 as stated: however often and from however many threads Close() is
\* called, the peer is untracked from the queue exactly once: never before
\* it is closed, and not a second time.
C23_UntrackedOnce == untracked = (IF closed_ THEN 1 ELSE 0)

\* C24 as stated: once a Close() has returned (the peer is closed and no
\* thread is still inside Close), the heartbeat timer no longer calls
\* SignalRequest.
C24_CloseStopsHeartbeat ==
  [][(closed_ /\ thr.closing = 0) => peer_last'.caller # "timer"]_vars

----------------------------------------------------------------------------
\* The outcomes of a SendNextRequest that was told the follower needs a
\* tablet copy.
CopyOutcomes == {"copy", "copy_disabled", "copy_prepare_failed"}

\* C25 as stated: whenever the queue signals that the follower needs a
\* tablet copy, a StartTabletCopy RPC is issued.
C25_CopyAlwaysIssued ==
  [][(peer_last'.op = "SendNextRequest" /\ peer_last'.out \in CopyOutcomes)
       => thr'.issueC = thr.issueC + 1]_vars

\* What the claim says of a StartTabletCopy response.
ClaimedCopyOutcome(resp) ==
  IF resp.controller = "OK" /\ resp.error \in {"none", "ALREADY_INPROGRESS"} THEN "OK"
  ELSE IF resp.error = "THROTTLED" THEN "silent"
  ELSE "logged"

\* C25: a SendNextRequest that is told the follower needs a tablet copy
\* never sends UpdateConsensus; it issues a StartTabletCopy RPC, and sets
\* request_pending_, exactly when tablet copy is enabled and the queue
\* produces the tablet copy request; otherwise it only logs a warning (and
\* counts a failed attempt when tablet copy is disabled).  On the response,
\* on a peer that is not closed, request_pending_ is cleared; the controller
\* being OK with no error or ALREADY_INPROGRESS reports PeerStatus OK, a
\* THROTTLED error is silent, and anything else is logged; the failure
\* counter is not touched and nothing is scheduled.
C25_TabletCopy ==
  [][/\ (peer_last'.op = "SendNextRequest" /\ peer_last'.out \in CopyOutcomes)
          => /\ thr'.issueU = thr.issueU
             /\ rpcs' = rpcs
             /\ thr'.issueC = thr.issueC + (IF peer_last'.out = "copy" THEN 1 ELSE 0)
             /\ request_pending_' = (peer_last'.out = "copy")
             /\ peer_last'.out = "copy_disabled" <=> ~enable_tablet_copy
             /\ failed_attempts_' = failed_attempts_ +
                                    (IF peer_last'.out = "copy_disabled" THEN 1 ELSE 0)
             /\ \A in \in SendInputs :
                  (in.needs_tablet_copy /\ CreateProxyIfNeeded(in))
                    => /\ SendOutcome(TRUE, in) \in CopyOutcomes
                       /\ SendOutcome(TRUE, in) = "copy" <=> (enable_tablet_copy /\ in.tc_ok)
     /\ (rpcs'.copy < rpcs.copy /\ ~closed_ /\ request_pending_)
          => /\ ~request_pending_'
             /\ failed_attempts_' = failed_attempts_
             /\ raft_tasks' = raft_tasks /\ thr' = thr
             /\ \A resp \in CopyResponses :
                  ProcessTabletCopyResponse(resp)
                    => peer_last'.out = ClaimedCopyOutcome(resp)]_vars

\* A THROTTLED response to StartTabletCopy has been swallowed on an open
\* peer.
C25_Witness ==
  /\ peer_last = Last("ProcessTabletCopyResponse", "silent")
  /\ ~closed_ /\ ~request_pending_
  /\ rpcs.copy = 0

----------------------------------------------------------------------------
\* The maintenance operations of a tablet replica.
MmSpecInit ==
  MmInit /\ PeerAtRest /\ PoolAtRest /\ DirAtRest /\ UpdAtRest /\ RespAtRest
    /\ DictAtRest /\ MoreAtRest

MmNext ==
  \/ Insert /\ UNCHANGED <<peerVars, poolVars, fsVars, respVars, dictVars, moreVars>>
  \/ MmTick /\ UNCHANGED <<peerVars, poolVars, fsVars, respVars, dictVars, moreVars>>
  \/ StopTablet /\ UNCHANGED <<peerVars, poolVars, fsVars, respVars, dictVars, moreVars>>
  \/ \E enable \in BOOLEAN, replay_ok \in BOOLEAN :
       \E th \in ThresholdMsOutcomes(flush_threshold_secs) :
         FlushMRSOp_UpdateStats(enable, replay_ok, th)
           /\ UNCHANGED <<peerVars, poolVars, fsVars, respVars, dictVars, moreVars>>
  \/ FlushMRSOp_Prepare /\ UNCHANGED <<peerVars, poolVars, fsVars, respVars, dictVars, moreVars>>
  \/ \E flush_ok \in BOOLEAN :
       FlushMRSOp_Perform(flush_ok) /\ UNCHANGED <<peerVars, poolVars, fsVars, respVars, dictVars, moreVars>>
  \/ \E replay_ok \in BOOLEAN, flush_ok \in BOOLEAN :
       FlushDeltaMemStoresOp_Perform(replay_ok, flush_ok)
         /\ UNCHANGED <<peerVars, poolVars, fsVars, respVars, dictVars, moreVars>>
  \/ LogGCOp_Prepare /\ UNCHANGED <<peerVars, poolVars, fsVars, respVars, dictVars, moreVars>>
  \/ LogGCOp_Perform /\ UNCHANGED <<peerVars, poolVars, fsVars, respVars, dictVars, moreVars>>

MmSpec == MmSpecInit /\ [][MmNext]_vars

\* The last step was an UpdateStats of FlushMRSOp that ran the policy.
PolicyRan == mm_last.op = "FlushMRSOp::UpdateStats" /\ mm_last.out = "stats"

\* The anchored memory is at or over flush_threshold_mb.
OverThreshold == mrs_half_mb >= 2 * flush_threshold_mb

\* The time since the last flush exceeds flush_threshold_secs.
OlderThanThreshold ==
  \/ time_since_flush_ \div 1000 > flush_threshold_secs
  \/ time_since_flush_ \div 1000 = flush_threshold_secs /\ time_since_flush_ % 1000 > 0

\* C26 as stated: over the threshold the score is max(1, anchored_mb -
\* threshold_mb), at least 1; under it, when the elapsed time exceeds
\* flush_threshold_secs, the score is min(1, max(elapsed_ms /
\* flush_upper_bound_ms, anchored_mb / threshold_mb)), within [0, 1];
\* otherwise the score is left as it was (0 after Clear).
C26_FlushPolicy ==
  [][PolicyRan' =>
       LET perf == mm_last'.stats.perf_improvement IN
       IF OverThreshold
         THEN /\ RatGeq(perf, Rat(1, 1))
              /\ RatEq(perf, IF mrs_half_mb - 2 * flush_threshold_mb > 2
                               THEN Rat(mrs_half_mb - 2 * flush_threshold_mb, 2)
                               ELSE Rat(1, 1))
       ELSE IF OlderThanThreshold
         THEN /\ RatGeq(perf, Rat(0, 1)) /\ RatGeq(Rat(1, 1), perf)
              /\ RatEq(perf, StdMin(Rat(1, 1),
                                    StdMax(Quotient(time_since_flush_, flush_upper_bound_ms),
                                           Rat(mrs_half_mb, 2 * flush_threshold_mb))))
       ELSE perf = ClearedStats.perf_improvement]_vars

\* At most one flush and at most one log GC is between a successful
\* Prepare and the end of its Perform, and it holds its lock.
OnePerLock ==
  /\ performing.flush <= 1 /\ performing.gc <= 1
  /\ performing.flush = 1 => rowsets_flush_sem_ = 0
  /\ performing.gc = 1 => sem_ = 0

\* C27: FlushMRSOp::Prepare and LogGCOp::Prepare return true exactly when
\* their lock is free, and then hold it; a Prepare that returns false
\* changes nothing.  Between a successful Prepare and the end of its
\* Perform no other Prepare on the same lock succeeds.  A Perform that
\* returns has released the lock, so the next Prepare succeeds again.
C27_TryLockedOps ==
  /\ [](~mm_aborted => OnePerLock)
  /\ [][/\ mm_last'.op = "FlushMRSOp::Prepare"
             => IF rowsets_flush_sem_ = 1
                  THEN /\ mm_last'.out = "true"
                       /\ rowsets_flush_sem_' = 0
                       /\ performing'.flush = performing.flush + 1
                  ELSE /\ mm_last'.out = "false"
                       /\ UNCHANGED <<rowsets_flush_sem_, performing>>
        /\ mm_last'.op = "LogGCOp::Prepare"
             => IF sem_ = 1
                  THEN /\ mm_last'.out = "true"
                       /\ sem_' = 0
                       /\ performing'.gc = performing.gc + 1
                  ELSE /\ mm_last'.out = "false"
                       /\ UNCHANGED <<sem_, performing>>
        /\ (mm_last'.op = "FlushMRSOp::Perform" /\ ~mm_aborted')
             => /\ performing.flush = 1 /\ performing'.flush = 0
                /\ rowsets_flush_sem_' = 1
        /\ (mm_last'.op = "LogGCOp::Perform" /\ ~mm_aborted')
             => /\ performing.gc = 1 /\ performing'.gc = 0
                /\ sem_' = 1]_vars

\* A log GC Prepare has just failed while a log GC and a flush are running.
C27_Witness ==
  /\ mm_last = MLast("LogGCOp::Prepare", "false")
  /\ performing = [flush |-> 1, gc |-> 1]
  /\ ~mm_aborted

\* C28: a Perform of FlushMRSOp or FlushDeltaMemStoresOp whose flush fails
\* returns only if the tablet has been stopped, and otherwise aborts the
\* process.  When FlushMRSOp::Perform returns after a failed flush the
\* flush lock has been released and time_since_flush_ keeps running; the
\* stopwatch restarts only in a Perform whose flush succeeded.
C28_FlushFailure ==
  [][/\ (mm_last'.op = "FlushMRSOp::Perform" /\ rowsets_flush_sem_ = 0)
          => /\ FlushMRSOp_Perform(FALSE)
                  => IF stopped
                       THEN /\ ~mm_aborted'
                            /\ rowsets_flush_sem_' = 1
                            /\ time_since_flush_' = time_since_flush_
                            /\ mrs_half_mb' = mrs_half_mb
                       ELSE mm_aborted'
             /\ FlushMRSOp_Perform(TRUE)
                  => ~mm_aborted' /\ time_since_flush_' = 0 /\ rowsets_flush_sem_' = 1
     /\ mm_last'.op = "FlushDeltaMemStoresOp::Perform"
          => (FlushDeltaMemStoresOp_Perform(TRUE, FALSE)
                => mm_aborted' = ~stopped)
     /\ time_since_flush_' < time_since_flush_
          => mm_last' = MLast("FlushMRSOp::Perform", "flushed")]_vars

\* A flush of the MemRowSet has failed on a stopped tablet: Perform has
\* returned, the lock is free and the stopwatch was not restarted.
C28_Witness ==
  /\ mm_last = MLast("FlushMRSOp::Perform", "failed_stopped")
  /\ stopped /\ ~mm_aborted
  /\ rowsets_flush_sem_ = 1
  /\ time_since_flush_ > 0
  /\ mrs_half_mb > 0

----------------------------------------------------------------------------
\* The dictionary block builder and decoder.
DictSpecInit ==
  DictInit /\ PeerAtRest /\ PoolAtRest /\ DirAtRest /\ UpdAtRest /\ RespAtRest
    /\ MmAtRest /\ MoreAtRest

DictNext ==
  \/ \E vals \in AddInputs :
       BlockBuilder_Add(vals)
         /\ UNCHANGED <<peerVars, poolVars, fsVars, respVars, mmVars, moreVars>>
  \/ BlockBuilder_Finish
       /\ UNCHANGED <<peerVars, poolVars, fsVars, respVars, mmVars, moreVars>>
  \/ BlockBuilder_Reset
       /\ UNCHANGED <<peerVars, poolVars, fsVars, respVars, mmVars, moreVars>>

DictSpec == DictSpecInit /\ [][DictNext]_vars

\* The mode a reader finds in the header of a finished block.
HeaderMode(block) == ParseHeader(block).mode

\* The header of a block tells the builder that made its data.
HeaderTellsBuilder(block) ==
  /\ ParseHeader(block).status = "OK"
  /\ HeaderMode(block) = kCodeWordMode <=> block.kind = "BShufBlockBuilder"
  /\ HeaderMode(block) = kPlainBinaryMode
       <=> block.kind = "BinaryPlainBlockBuilder"

\* The blocks of the file are codeword blocks up to some block and plain
\* blocks after it, and none is a plain block while the builder is in
\* codeword mode.
CodeWordBlocksFirst ==
  \E k \in 0..Len(file_blocks) :
    /\ \A i \in 1..k : HeaderMode(file_blocks[i]) = kCodeWordMode
    /\ \A i \in (k + 1)..Len(file_blocks) :
         HeaderMode(file_blocks[i]) = kPlainBinaryMode
    /\ mode_ = kCodeWordMode => k = Len(file_blocks)

\* C29: the builder's mode is a one-way switch. It is codeword mode until a
\* block has been finished, it changes only from codeword to plain-binary
\* mode, only in a Reset that finds the dictionary block full, and every such
\* Reset changes it; a finished block's header holds the mode the builder was
\* in, which is the mode its data was built in, so the file is a run of
\* codeword blocks followed by a run of plain-binary blocks.
C29_OneWayMode ==
  /\ [](file_blocks = <<>> => mode_ = kCodeWordMode)
  /\ [](CodeWordBlocksFirst
          /\ \A i \in 1..Len(file_blocks) : HeaderTellsBuilder(file_blocks[i]))
  /\ [][/\ mode_' # mode_ =>
             /\ mode_ = kCodeWordMode /\ mode_' = kPlainBinaryMode
             /\ bd_last'.op = "Reset"
             /\ DictIsBlockFull(dict_block_)
        /\ (bd_last'.op = "Reset" /\ mode_ = kCodeWordMode
              /\ DictIsBlockFull(dict_block_)) => mode_' = kPlainBinaryMode
        /\ Len(file_blocks') > Len(file_blocks) =>
             HeaderMode(file_blocks'[Len(file_blocks')]) = mode_]_vars

\* A file with a codeword block before the transition and a plain-binary
\* block after it.
C29_Witness ==
  /\ Len(file_blocks) >= 2
  /\ HeaderMode(file_blocks[1]) = kCodeWordMode
  /\ file_blocks[1].items # <<>>
  /\ HeaderMode(file_blocks[Len(file_blocks)]) = kPlainBinaryMode
  /\ file_blocks[Len(file_blocks)].items # <<>>
  /\ mode_ = kPlainBinaryMode

\* Each string of the dictionary block has one codeword, its 0-based position.
CodeWordIsPosition ==
  /\ dictionary_ = {<<dict_block_[i], i - 1>> : i \in 1..Len(dict_block_)}
  /\ \A i, j \in 1..Len(dict_block_) :
       dict_block_[i] = dict_block_[j] => i = j

\* The accepted values that are in finished blocks.
AcceptedInBlocks ==
  SubSeq(accepted, 1,
         Len(accepted) - (IF finished_ THEN 0 ELSE Len(data_builder_.items)))

----------------------------------------------------------------------------
\* The dictionary block decoder.
DecSpecInit ==
  DecInit /\ PeerAtRest /\ PoolAtRest /\ DirAtRest /\ UpdAtRest /\ RespAtRest
    /\ MmAtRest /\ DictAtRest /\ DecOthersAtRest

DecNext ==
  \/ \E pos \in 0..MaxRows :
       SeekToPositionInBlock(pos)
         /\ UNCHANGED <<peerVars, poolVars, fsVars, respVars, mmVars, dictVars,
                        decOthers>>
  \/ \E value \in Strings :
       SeekAtOrAfterValue(value)
         /\ UNCHANGED <<peerVars, poolVars, fsVars, respVars, mmVars, dictVars,
                        decOthers>>
  \/ \E n \in BatchSizes, pred \in Predicates :
       \E sel_in \in [1..n -> BOOLEAN] :
         CopyNextAndEval(n, pred, sel_in)
           /\ UNCHANGED <<peerVars, poolVars, fsVars, respVars, mmVars, dictVars,
                        decOthers>>

DecSpec == DecSpecInit /\ [][DecNext]_vars

\* The codeword of the i-th row the last CopyNextAndEval read.
RowCodeWord(i) == data_decoder_.items[dec_last.pos + i]

\* C31: after CopyNextAndEval on a codeword block, for each of the n rows
\* read the selection bit is set iff it was set before and the row's
\* codeword is in the bitmap of matching codewords; a row whose bit stays
\* set has the dictionary entry of its codeword in its output cell; when no
\* codeword matches, the n bits are cleared, nothing is decoded and the
\* decoder has advanced by n rows; for IsNotNull all n rows are decoded and
\* the selection vector is unchanged.
C31_CopyNextAndEval ==
  dec_last.op = "CopyNextAndEval" =>
    /\ data_decoder_.cur_idx_ = dec_last.pos + dec_last.n
    /\ dec_last.n
         = Min2(Len(dec_last.sel), Len(data_decoder_.items) - dec_last.pos)
    /\ \A i \in 1..Len(sel) : sel[i] => dec_last.sel[i]
    /\ \A i \in 1..dec_last.n :
         /\ sel[i] <=> (dec_last.sel[i] /\ RowCodeWord(i) \in dec_last.matching)
         /\ sel[i] => dst[i] = string_at_index(dict_decoder_, RowCodeWord(i))
    /\ dec_last.matching = {} =>
         /\ \A i \in 1..dec_last.n : ~sel[i]
         /\ \A i \in 1..Len(dst) : dst[i] = "untouched"
    /\ dec_last.type = "IsNotNull" =>
         /\ sel = dec_last.sel
         /\ \A i \in 1..dec_last.n :
              dst[i] = string_at_index(dict_decoder_, RowCodeWord(i))

\* An evaluation that keeps one row and drops a selected row whose codeword
\* does not match, with more rows asked for than the block had left.
C31_Witness ==
  /\ dec_last.op = "CopyNextAndEval"
  /\ dec_last.type = "InList"
  /\ \E i, j \in 1..dec_last.n :
       /\ sel[i]
       /\ dec_last.sel[j] /\ ~sel[j]
  /\ \E k \in 1..Len(sel) : k > dec_last.n

\* The value of the last seek is above every key of the dictionary block.
BeyondLargestKey ==
  /\ dec_last.op = "SeekAtOrAfterValue"
  /\ \A i \in 1..Len(dict_decoder_) :
       Rank(dict_decoder_[i]) < Rank(dec_last.value)

\* C32: a SeekAtOrAfterValue for a value above the largest dictionary key
\* returns NotFound and leaves the data decoder one past the end of the
\* block, with no row left to read.
C32_SeekBeyondLargest ==
  BeyondLargestKey =>
    /\ dec_last.status = "NotFound"
    /\ data_decoder_.cur_idx_ = Len(data_decoder_.items)


\* C33: a SignalRequest that finds the peer closed returns IllegalState, and
\* one that finds a request pending returns OK, both without submitting a
\* task; a SendNextRequest snoozes the heartbeat exactly when it sends an
\* UpdateConsensus request that has ops or advances the committed index, and
\* a request without either is sent only by a SignalRequest(true) task, by
\* DoProcessResponse's SendNextRequest(true), or as the first request.
C33_SignalAndSnooze ==
  [][/\ (peer_last'.op = "SignalRequest" /\ peer_last' # peer_last
           /\ (closed_ \/ request_pending_))
          => /\ peer_last'.out = (IF closed_ THEN "IllegalState" ELSE "pending")
             /\ raft_tasks' = raft_tasks
             /\ thr' = thr
     /\ (peer_last'.op = "SendNextRequest"
           /\ (raft_tasks' # raft_tasks \/ thr'.resend < thr.resend))
          => /\ peer_last'.snooze
                  <=> (peer_last'.out = "update" /\ peer_last'.ops)
             /\ (peer_last'.out = "update" /\ ~peer_last'.ops)
                  => \/ peer_last'.caller \in {"sendT", "resend"}
                     \/ ~has_sent_first_request_]_vars

\* A status-only request has been sent by a SignalRequest(true) task,
\* without a snooze.
C33_Witness ==
  /\ peer_last.op = "SendNextRequest"
  /\ peer_last.out = "update"
  /\ peer_last.caller = "sendT"
  /\ ~peer_last.ops /\ ~peer_last.snooze
  /\ request_.sets = 1
  /\ failed_attempts_ = 0
  /\ untracked = 0
  /\ thr.issueU = 1 /\ rpcs.update = 0 /\ raft_tasks["sendT"] = 0
  /\ has_sent_first_request_ /\ request_pending_ /\ ~closed_

----------------------------------------------------------------------------
\* The logging of failed requests.
FailSpecInit ==
  PeerInit /\ PoolAtRest /\ DirAtRest /\ UpdAtRest /\ RespAtRest /\ MmAtRest
    /\ DictAtRest /\ WarnAtRest /\ WarnOthersAtRest

FailNext ==
  \/ RequestSent
       /\ UNCHANGED <<poolVars, fsVars, respVars, mmVars, dictVars, warnOthers>>
  \/ ProcessResponseErrorUnlocked
       /\ UNCHANGED <<poolVars, fsVars, respVars, mmVars, dictVars, warnOthers>>
  \/ PrepareTabletCopyRequest
       /\ UNCHANGED <<poolVars, fsVars, respVars, mmVars, dictVars, warnOthers>>
  \/ ResponseProcessed
       /\ UNCHANGED <<poolVars, fsVars, respVars, mmVars, dictVars, warnOthers>>

FailSpec == FailSpecInit /\ [][FailNext]_vars

\* C34: the warning of a failed request is logged exactly when the counter
\* after the increment is 1 modulo 5, and any 5 consecutive failures of a run
\* have at most one warning.
C34_LogThrottle ==
  /\ [][peer_last'.op = "ProcessResponseErrorUnlocked"
          /\ failed_attempts_' # failed_attempts_
        => /\ failed_attempts_' = failed_attempts_ + 1
           /\ Len(run_log') = failed_attempts_'
           /\ run_log'[failed_attempts_'] <=> (failed_attempts_' % 5 = 1)]_vars
  /\ [](/\ Len(run_log) = failed_attempts_
        /\ \A i, j \in 1..Len(run_log) :
             (i < j /\ j - i < 5) => ~(run_log[i] /\ run_log[j]))

\* A run of failures in which the 1st, the 6th and the 11th were logged.
C34_Witness ==
  /\ failed_attempts_ = 11
  /\ run_log[1] /\ run_log[6] /\ run_log[11]
  /\ peer_last = Last("ProcessResponseErrorUnlocked", "logged")


\* C35: once Close() has completed, no DoProcessResponse runs (it would call
\* ResponseFromPeer), no RPC is issued, a SendNextRequest returns at its
\* test of closed_ before RequestForPeer, and an RPC callback returns at its
\* test of closed_ before UpdatePeerStatus.
C35_ClosedPeerIsQuiet ==
  [][(closed_ /\ thr.closing = 0) =>
       /\ raft_tasks'["doproc"] >= raft_tasks["doproc"]
       /\ rpcs'.update <= rpcs.update /\ rpcs'.copy <= rpcs.copy
       /\ (raft_tasks' # raft_tasks \/ thr'.resend < thr.resend)
            => (peer_last'.op = "SendNextRequest"
                  => peer_last'.out = "closed")
       /\ rpcs' # rpcs => peer_last'.out = "closed"]_vars

----------------------------------------------------------------------------
\* The consensus peer with the scheduling its environment provides: the raft
\* pool runs a queued DoProcessResponse, and a thread that has entered
\* SendNextRequest finishes it.
PoolRunsDoProcessResponse ==
  \E more \in BOOLEAN :
    DoProcessResponse(more) /\ UNCHANGED <<poolVars, fsVars, extVars>>

ThreadFinishesSend ==
  \/ IssueRpc /\ UNCHANGED <<poolVars, fsVars, extVars>>
  \/ SendMoreImmediately /\ UNCHANGED <<poolVars, fsVars, extVars>>

\* The peer starts with a proxy and with tablet copy enabled.
LiveInit == PeerAtRest /\ PoolAtRest /\ DirAtRest /\ UpdAtRest /\ ExtAtRest

LiveSpec ==
  /\ LiveInit
  /\ [][Next]_vars
  /\ WF_vars(PoolRunsDoProcessResponse)
  /\ WF_vars(ThreadFinishesSend)

\* A request is pending on a peer that is not closed, and whose process has
\* not been aborted or which has not been destroyed.
PendingOnOpenPeer == request_pending_ /\ ~closed_ /\ Alive

\* Something is under way that ends the pending request: the RPC is being
\* issued or is in flight, or a DoProcessResponse is queued on the pool.
ResponseUnderWay ==
  thr.issueU + thr.issueC + rpcs.update + rpcs.copy + raft_tasks["doproc"] > 0

\* C36: a non-closed peer is never stuck with request_pending_ set. While it
\* is set, an RPC is being issued or in flight or a DoProcessResponse is
\* queued; the callback of an UpdateConsensus RPC clears it on every error
\* path and when the submission of DoProcessResponse is rejected, and
\* otherwise leaves a DoProcessResponse queued; the tablet-copy callback and
\* DoProcessResponse clear it; and after a callback has queued
\* DoProcessResponse, request_pending_ becomes false.
C36_PendingIsCleared ==
  /\ [](PendingOnOpenPeer => ResponseUnderWay)
  /\ [][/\ (rpcs'.update < rpcs.update /\ ~closed_ /\ ~check_failed')
             => \/ ~request_pending_'
                \/ /\ peer_last'.out = "submitted"
                   /\ raft_tasks'["doproc"] = raft_tasks["doproc"] + 1
        /\ (rpcs'.copy < rpcs.copy /\ ~closed_ /\ ~check_failed')
             => ~request_pending_'
        /\ (raft_tasks'["doproc"] < raft_tasks["doproc"] /\ ~check_failed')
             => ~request_pending_']_vars
  /\ (PendingOnOpenPeer /\ peer_last = Last("ProcessResponse", "submitted"))
       ~> (~request_pending_ \/ ~Alive)

\* A DoProcessResponse queued by the callback has cleared request_pending_.
C36_Witness ==
  /\ peer_last.op = "DoProcessResponse"
  /\ peer_last.out = "done"
  /\ ~request_pending_ /\ ~closed_ /\ Alive
  /\ failed_attempts_ = 0
  /\ has_sent_first_request_
  /\ TotalTasks = 0 /\ rpcs.update = 0 /\ rpcs.copy = 0
  /\ untracked = 0


\* A SendNextRequest step has found that the follower needs a tablet copy
\* and could not prepare the request.
CopyNotPrepared ==
  /\ raft_tasks' # raft_tasks \/ thr' # thr
  /\ peer_last'.op = "SendNextRequest"
  /\ peer_last'.out \in {"copy_disabled", "copy_prepare_failed"}

\* What such a step does: no RPC, request_pending_ stays false, and
\* failed_attempts_ is incremented exactly when tablet copy is disabled.
CopyNotPreparedEffects ==
  CopyNotPrepared =>
    /\ ~request_pending_ /\ ~request_pending_'
    /\ thr'.issueU = thr.issueU /\ thr'.issueC = thr.issueC
    /\ rpcs' = rpcs
    /\ (peer_last'.out = "copy_disabled") = ~enable_tablet_copy
    /\ failed_attempts_' = failed_attempts_ +
                             (IF peer_last'.out = "copy_disabled" THEN 1 ELSE 0)

\* failed_attempts_ goes back to zero only in DoProcessResponse, which runs
\* after a successful UpdateConsensus response.
OnlySuccessResetsCounter ==
  (failed_attempts_ > 0 /\ failed_attempts_' = 0)
    => (peer_last'.op = "DoProcessResponse" /\ raft_tasks'["doproc"] < raft_tasks["doproc"])

\* C37 as claimed: when the follower needs a tablet copy and tablet copy is
\* disabled the peer sends no RPC, leaves request_pending_ false and
\* increments failed_attempts_ (no increment when the request cannot be built
\* for another reason); from then on, until a successful UpdateConsensus
\* response resets the counter, every SendNextRequest(false) is skipped.
C37_SkipsAfterCopyDisabled ==
  [][/\ CopyNotPreparedEffects
     /\ OnlySuccessResetsCounter
     /\ (failed_attempts_ > 0 /\ raft_tasks'["sendF"] < raft_tasks["sendF"])
          => /\ peer_last'.out \in EarlyReturns
             /\ thr' = thr
             /\ UNCHANGED <<request_pending_, failed_attempts_, rpcs>>]_vars

\* C37 amended: the same, with the skipping of SendNextRequest(false) limited
\* to a peer that has already sent its first request; before that the call
\* is treated as a heartbeat and asks the queue again.
C37_SkipsOnceFirstRequestSent ==
  [][/\ CopyNotPreparedEffects
     /\ OnlySuccessResetsCounter
     /\ (/\ failed_attempts_ > 0 /\ has_sent_first_request_
         /\ raft_tasks'["sendF"] < raft_tasks["sendF"])
          => /\ peer_last'.out \in EarlyReturns
             /\ thr' = thr
             /\ UNCHANGED <<request_pending_, failed_attempts_, rpcs>>
     /\ (/\ failed_attempts_ > 0 /\ ~has_sent_first_request_ /\ Idle
         /\ raft_tasks'["sendF"] < raft_tasks["sendF"])
          => peer_last'.out \notin EarlyReturns]_vars

\* C37 witness: with tablet copy disabled, a peer that had sent its first
\* request was told that the follower needs a tablet copy; the attempt was
\* counted, nothing is pending or in flight, and a non-heartbeat signal is
\* queued behind it.
C37_Witness ==
  /\ peer_last.op = "SendNextRequest" /\ peer_last.out = "copy_disabled"
  /\ ~enable_tablet_copy
  /\ failed_attempts_ = 1
  /\ has_sent_first_request_
  /\ Idle /\ Alive
  /\ rpcs.update = 0 /\ rpcs.copy = 0 /\ thr.issueU = 0 /\ thr.issueC = 0
  /\ raft_tasks["sendF"] > 0


\* The disk under CreateNewDirectoriesAndUpdateInstances.
CrSpecInit ==
  CrInit /\ PeerAtRest /\ PoolAtRest /\ DirAtRest /\ UpdAtRest /\ RespAtRest
    /\ MmAtRest /\ DictAtRest /\ CrOthersAtRest

\* The environment fails the deletion of at most one file and of one
\* directory, among those of the instances that were not found.
CrNext ==
  \E in \in CreateInputs :
    \E stuck_file \in MissingRoots(in) \cup {NoRoot},
       stuck_dir \in MissingRoots(in) \cup {NoRoot} :
      CreateNewDirectories(in, stuck_file, stuck_dir)
        /\ UNCHANGED <<peerVars, poolVars, fsVars, respVars, mmVars, dictVars, crOthers>>

CrSpec == CrSpecInit /\ [][CrNext]_vars

\* The elements of a sequence.
Elems(seq) == {seq[k] : k \in 1..Len(seq)}

\* The call has returned with an error / with OK.
CreateFailed == cr_last.op # "none" /\ cr_last.status # "OK"
CreateSucceeded == cr_last.op # "none" /\ cr_last.status = "OK"

\* The cleanup has called DeleteFile on every created file in the order of
\* creation, and then DeleteDir on every created directory in the reverse
\* order.
FilesThenDirsReversed ==
  LET n == Len(cr_last.created_files)
      m == Len(cr_last.created_dirs)
  IN /\ Len(cr_last.deleted) = n + m
     /\ \A k \in 1..n : /\ cr_last.deleted[k].what = "file"
                        /\ cr_last.deleted[k].id = cr_last.created_files[k]
     /\ \A k \in 1..m : /\ cr_last.deleted[n + k].what = "dir"
                        /\ cr_last.deleted[n + k].id = cr_last.created_dirs[m + 1 - k]

\* On success nothing is deleted: what was created is on disk, and the
\* created directories are recorded in created_fs_dir_paths_.
SuccessKeepsAll ==
  CreateSucceeded =>
    /\ cr_last.deleted = <<>>
    /\ disk_files = cr_last.before.files \cup Elems(cr_last.created_files)
    /\ disk_dirs = cr_last.before.dirs \cup Elems(cr_last.created_dirs)
    /\ Elems(cr_last.created_dirs) \subseteq created_fs_dir_paths_

\* C38 as claimed: when the call returns an error, every instance file and
\* directory it created is deleted again, files first and directories in
\* reverse creation order, and the instance files and directories on disk
\* are those from before the call; on success nothing is deleted.
C38_FailedCreateLeavesNoTrace ==
  /\ CreateFailed =>
       /\ FilesThenDirsReversed
       /\ \A k \in 1..Len(cr_last.deleted) : cr_last.deleted[k].ok
       /\ disk_files = cr_last.before.files
       /\ disk_dirs = cr_last.before.dirs
  /\ SuccessKeepsAll

\* C38 amended: when the call returns an error, the cleanup calls DeleteFile
\* on every instance file it created and then DeleteDir on every directory
\* it created, in reverse creation order; a deletion that fails is only
\* logged.  When no deletion is failed by the environment every one of them
\* succeeds and the disk is as it was before the call; in any case nothing
\* that was there before is deleted, and what is left over is a file whose
\* deletion failed or a directory that could not be emptied or deleted.  On
\* success nothing is deleted.
C38_FailedCreateRollsBack ==
  /\ CreateFailed =>
       /\ FilesThenDirsReversed
       /\ (/\ cr_last.stuck_file \notin Elems(cr_last.created_files)
           /\ cr_last.stuck_dir \notin Elems(cr_last.created_dirs))
            => /\ \A k \in 1..Len(cr_last.deleted) : cr_last.deleted[k].ok
               /\ disk_files = cr_last.before.files
               /\ disk_dirs = cr_last.before.dirs
       /\ cr_last.before.files \subseteq disk_files
       /\ cr_last.before.dirs \subseteq disk_dirs
       /\ disk_files \ cr_last.before.files \subseteq {cr_last.stuck_file}
       /\ \A d \in disk_dirs \ cr_last.before.dirs :
            \/ d = cr_last.stuck_dir
            \/ d \in disk_files
            \/ \E c \in disk_dirs : d \in Inside(c)
  /\ SuccessKeepsAll

\* C38 witness: the call created the directories and instance files of roots
\* 0 and 1, the second inside the first, failed on root 2, and deleted both
\* files and then the two directories, the inner one first.
C38_Witness ==
  /\ CreateFailed
  /\ cr_last.created_files = <<0, 1>>
  /\ cr_last.created_dirs = <<0, 1>>
  /\ cr_last.deleted = <<Deletion("file", 0, TRUE), Deletion("file", 1, TRUE),
                         Deletion("dir", 1, TRUE), Deletion("dir", 0, TRUE)>>
  /\ disk_files = {} /\ disk_dirs = {}


\* The schema builder.
SbSpecInit ==
  SbInit /\ PeerAtRest /\ PoolAtRest /\ DirAtRest /\ UpdAtRest /\ RespAtRest
    /\ MmAtRest /\ DictAtRest /\ SbOthersAtRest

SbNext ==
  \/ \E name \in ColNames, binary \in BOOLEAN, is_key \in BOOLEAN :
       AddColumn(Column(name, binary, is_key), is_key)
         /\ UNCHANGED <<peerVars, poolVars, fsVars, respVars, mmVars, dictVars, sbOthers>>
  \/ \E name \in ColNames :
       RemoveColumn(name)
         /\ UNCHANGED <<peerVars, poolVars, fsVars, respVars, mmVars, dictVars, sbOthers>>
  \/ \E old_name \in ColNames, new_name \in ColNames :
       RenameColumn(old_name, new_name)
         /\ UNCHANGED <<peerVars, poolVars, fsVars, respVars, mmVars, dictVars, sbOthers>>
  \/ \E col_delta \in ColumnSchemaDeltas :
       ApplyColumnSchemaDelta(col_delta)
         /\ UNCHANGED <<peerVars, poolVars, fsVars, respVars, mmVars, dictVars, sbOthers>>

SbSpec == SbSpecInit /\ [][SbNext]_vars

\* Column names are unique, and col_names_ is the set of names in cols_.
NamesUnique ==
  /\ \A i, j \in 1..Len(cols_) : i # j => cols_[i].name # cols_[j].name
  /\ col_names_ = {cols_[i].name : i \in 1..Len(cols_)}

\* No column has the empty name.
NamesNonEmpty == \A i \in 1..Len(cols_) : cols_[i].name # ""

\* cols_ and col_ids_ go together; the ids are pairwise distinct and below
\* next_id_, and so is every id the builder has held, so that AddColumn
\* never hands out an id a second time.
IdsDistinctAndFresh ==
  /\ Len(cols_) = Len(col_ids_)
  /\ \A i, j \in 1..Len(col_ids_) : i # j => col_ids_[i] # col_ids_[j]
  /\ \A i \in 1..Len(col_ids_) : col_ids_[i] < next_id_ /\ col_ids_[i] \in used_ids
  /\ \A id \in used_ids : id < next_id_

\* The first num_key_columns_ columns are the key columns.
KeysFirst ==
  /\ num_key_columns_ \in 0..Len(cols_)
  /\ \A i \in 1..Len(cols_) : cols_[i].key <=> i <= num_key_columns_

\* A call that returns an error leaves the builder as it was.
ErrorLeavesBuilder == sb_last'.status # "OK" => UNCHANGED Builder

\* The invariants of the builder other than that of non-empty names.
BuilderInvariantsButNonEmpty ==
  /\ [](NamesUnique /\ IdsDistinctAndFresh /\ KeysFirst)
  /\ [][ErrorLeavesBuilder]_vars

\* C39: after any sequence of AddColumn, RemoveColumn, RenameColumn and
\* ApplyColumnSchemaDelta calls the column names are unique and non-empty and
\* col_names_ is the set of names in cols_; cols_ and col_ids_ have equal
\* length, the ids are pairwise distinct and below next_id_ and no id is
\* handed out twice; the first num_key_columns_ columns are the key columns;
\* and a call that returns an error leaves the builder unchanged.
C39_BuilderInvariants ==
  /\ [](NamesUnique /\ NamesNonEmpty /\ IdsDistinctAndFresh /\ KeysFirst)
  /\ [][ErrorLeavesBuilder]_vars


\* The selection vector.
SvSpecInit ==
  SvInit /\ PeerAtRest /\ PoolAtRest /\ DirAtRest /\ UpdAtRest /\ RespAtRest
    /\ MmAtRest /\ DictAtRest /\ SvOthersAtRest

SvNext ==
  \E max_rows \in 0..(MaxSelRows + 1) :
    ClearToSelectAtMost(max_rows)
      /\ UNCHANGED <<peerVars, poolVars, fsVars, respVars, mmVars, dictVars, svOthers>>

SvSpec == SvSpecInit /\ [][SvNext]_vars

\* std::min on row counts.
MinRows(a, b) == IF a < b THEN a ELSE b

\* C40: ClearToSelectAtMost(m) keeps exactly the first min(m, c) selected
\* rows, c being the number of rows selected before the call: afterwards
\* CountSelected() = min(m, c), a row is selected exactly when it was selected
\* before and at most m selected rows precede or are it, every bit that is
\* set was set before, every cleared bit lies after the last kept row, the
\* vector is unchanged when m >= n_rows_, and for m = 0 all bits are cleared.
C40_ClearToSelectAtMost ==
  sv_last.op = "ClearToSelectAtMost" =>
    LET before == sv_last.before
        m == sv_last.max_rows
        c == CountSelected(before)
    IN
    /\ CountSelected(bitmap_) = MinRows(m, c)
    /\ \A i \in 1..n_rows_ : bitmap_[i] <=> (before[i] /\ BitsCount(before, i) <= m)
    /\ \A k \in DOMAIN bitmap_ : bitmap_[k] => before[k]
    /\ \A i \in 1..n_rows_ :
         (before[i] /\ ~bitmap_[i]) => \A j \in 1..n_rows_ : bitmap_[j] => j < i
    /\ m >= n_rows_ => bitmap_ = before
    /\ m = 0 => \A k \in DOMAIN bitmap_ : ~bitmap_[k]

\* C40 witness: of three selected rows with an unselected row among them,
\* ClearToSelectAtMost(2) has kept the first two and cleared the third.
C40_Witness ==
  /\ sv_last.op = "ClearToSelectAtMost"
  /\ sv_last.max_rows = 2
  /\ n_rows_ = 4
  /\ \A i \in 1..n_rows_ : sv_last.before[i] <=> i # 2
  /\ \A i \in 1..n_rows_ : bitmap_[i] <=> i \in {1, 3}

====
